---- MODULE Spec2Model ----
(***************************************************************************)
(* SeleniumFlowRunner (src/classes/Selenium_class.py): the asynchronous    *)
(* job engine.  start_flow stores a FlowJob and hands _run to a thread     *)
(* pool; _run executes the steps one after the other; get_status, cancel   *)
(* and list_jobs are called from other threads while workers run.          *)
(*                                                                         *)
(* Every assignment to a field of a FlowJob is one step of the model: the  *)
(* code takes no lock, so a caller thread can run between any two of them. *)
(***************************************************************************)
EXTENDS Integers, Sequences, FiniteSets, TLC

\* ---------------------------------------------------------------- bounds
\* Number of start_flow calls the callers make, with the step lists of Flows.
MaxJobs == 1
\* Number of start_flow calls the callers make, with the step lists of PoolFlows.
MaxPoolJobs == 2
\* max_workers, the size of the thread pool, in the runs that are about the pool.
MaxWorkers == 1
\* The polls of _wait_for_download that fit in the longest timeout of a download step.
MaxPolls == 3
\* The writes of the browser to the directory while a download step waits.
MaxWrites == 3
\* The largest file, in bytes.
MaxSize == 2

\* The most components a path handed to the file manager has.
MaxDepth == 3

\* The most whitespace characters before and after a selector.
MaxPad == 1
\* The most characters a selector has after its head.
MaxTail == 2
\* The largest retry count of a click step.
MaxRetry == 2
\* The most folder names of a file_make_dirs call and items of a move_many call.
MaxItems == 2
\* The most events of a sync_events call.
MaxEvents == 2
\* The calls of sync_events with the same events.
MaxSyncs == 2

MaxIds == IF MaxJobs > MaxPoolJobs THEN MaxJobs ELSE MaxPoolJobs

JobIds == 1..MaxIds

\* ------------------------------------------------------------- data model
None == "None"

PENDING == "PENDING"
RUNNING == "RUNNING"
SUCCESS == "SUCCESS"
FAILED == "FAILED"
CANCELED == "CANCELED"

JobStates == {PENDING, RUNNING, SUCCESS, FAILED, CANCELED}

Terminal == {SUCCESS, FAILED, CANCELED}

\* The members of the Act enum that the flows of this model use.
Acts == {"goto", "click", "wait_visible", "expect_text", "screenshot", "wait_download"}

Step(act, value, retry, optional) ==
    [act |-> act, value |-> value, retry |-> retry, optional |-> optional]

\* The step lists handed to start_flow.  "hover" is not a member of Act.
Flows ==
    { <<>>,
      << Step("click", None, 2, FALSE) >>,
      << Step("wait_download", "*.xlsx", 1, FALSE), Step("goto", "url", 1, FALSE) >>,
      << Step("wait_visible", None, 1, TRUE), Step("screenshot", None, 0, FALSE) >>,
      << Step("expect_text", "kw", 0, TRUE), Step("click", None, 0, FALSE) >>,
      << Step("hover", None, 1, TRUE), Step("goto", "url", 0, FALSE) >>,
      << Step("wait_download", "*.xlsx", 0, FALSE), Step("screenshot", None, 0, FALSE) >> }

\* The step lists of the runs that are about the pool and the store.
PoolFlows == { <<>>, << Step("goto", "url", 0, FALSE) >> }

\* The step lists of the runs in which get_status is called.
StatusFlows ==
    { <<>>,
      << Step("wait_download", None, 0, FALSE), Step("goto", "url", 0, FALSE) >> }

\* out_subdir as the path it denotes below download_root: None and "" denote the root
\* itself, and a name is one component.  The names of the model are numbers: the
\* directory of a job is named by its id, and 0 is a name that is no job's id.
NoSubdir == <<>>

\* The out_subdir values callers pass: none, a name of their own, and the id that an
\* earlier start_flow returned.
Subdirs == {NoSubdir, <<0>>} \cup {<<j>> : j \in JobIds}

\* The set-up of one run: how many flows the callers start, drawn from which lists and
\* with which out_subdir values, and the max_workers the runner is constructed with.
Plan(limit, flows, workers, subdirs) ==
    [limit |-> limit, flows |-> flows, workers |-> workers, subdirs |-> subdirs]

\* Files of a job's output directory: the browser's download and a screenshot.
FileNames == {"report.xlsx", "shot.png"}

FileSize(f) == IF f = "report.xlsx" THEN 2048 ELSE 512

\* The contents of a file, which _sha256 digests: each file of the model has its own.
Sha256(f) == <<"sha256", f>>

\* Optional[float] = None and Optional[int] = None: the timestamps of the model start
\* at 1 and file sizes are not negative.
NoTime == 0

NoSize == -1

DownloadResult(file_path, file_size, sha256) ==
    [file_path |-> file_path, file_size |-> file_size, sha256 |-> sha256]

\* DownloadResult(): every field None.
EmptyDownloadResult == DownloadResult(None, NoSize, <<>>)

\* Optional[DownloadResult]: <<>> is None, <<r>> is the instance r.
NoResult == <<>>

FlowJob(job_id, out_dir, steps, created) ==
    [job_id |-> job_id, out_dir |-> out_dir, created_at |-> created,
     state |-> PENDING, message |-> <<>>, started_at |-> NoTime, finished_at |-> NoTime,
     steps |-> steps, result |-> NoResult]

\* FlowJob.to_dict's rendering of the result field: `None if not self.result`, where a
\* DownloadResult instance is truthy whatever its fields; str() of the path if there is one.
ResultDict(r) ==
    IF r = NoResult THEN <<>>
    ELSE << [file_path |-> r[1].file_path, file_size |-> r[1].file_size,
             sha256 |-> r[1].sha256] >>

\* ------------------------------------------------------------- exceptions
\* The except clause of _exec_step.
Transient == {"TimeoutException", "NoSuchElementException", "ElementClickInterceptedException"}

\* What the handler of an action can raise.
Raises(act) ==
    CASE act = "goto" -> {"TimeoutException", "WebDriverException"}
      [] act = "click" -> {"TimeoutException", "WebDriverException"}
      [] act = "wait_visible" -> {"TimeoutException"}
      [] act = "expect_text" -> {"TimeoutException", "AssertionError"}
      [] act = "screenshot" -> {"WebDriverException"}
      [] act = "wait_download" -> {"TimeoutException"}
      [] OTHER -> {}

\* Messages are sequences of their parts; the dataclass default "" is <<>>.
\* f"{type(e).__name__}: {e}"
FailMessage(e) == <<e, ": ", "str(e)">>

CanceledMessage == <<"canceled by user">>

OkMessage == <<"ok">>

\* ------------------------------------------------------------------ state
VARIABLES
    plan,          \* the callers' plan for this run; it never changes
    jobs,          \* self._jobs: job id -> FlowJob (ids are 1, 2, ... in the order of creation)
    cancel_flags,  \* self._cancel_flags: job id -> whether the Event is set
    queue,         \* the executor's work queue: ids whose _run has not begun
    wk,            \* per job, the frame of its _run call: pc, step index, attempt, exception, driver
    dir,           \* per job, the files of out_dir, least recently modified first
    now,           \* per job, the value the next time.time() of its life returns
    sub,           \* the id a start_flow call has stored but not yet submitted (0: none)
    rd,            \* the get_status call in progress: to_dict reads the fields one by one
    attempts,      \* history: per job and step, the handler calls made
    fails,         \* history: per job and step, the handler calls that raised
    outcome,       \* history: per job and step, how _exec_step ended
    runs,          \* history: per job, how many times _run began
    vers,          \* history: the field values the job read by rd held since the call began
    seen,          \* history: per job, the first status returned with a terminal state
    obs,           \* history: per id, what the last answer of get_status reported
    cancelAt,      \* history: per job, the job's state when cancel first set its flag
    det,           \* one _wait_download call looked at poll by poll, and the directory it watches
    lj,            \* the list_jobs call in progress: the iterator over self._jobs.values()
    fm,            \* one call of a MultiBaseFileManager method, from its path to its file access
    fs,            \* the directories and files the file manager's folder and move calls work on
    loc,           \* one call of _by_and_value
    clk,           \* one call of the click handler, operation by operation
    cal            \* one sync_events call and the calendar it works on

vars == <<plan, jobs, cancel_flags, queue, wk, dir, now, sub, rd,
          attempts, fails, outcome, runs, vers, seen, obs, cancelAt, det, lj, fm,
          fs, loc, clk, cal>>

\* The state of the runner and its jobs: everything but the detector's close-up.
runner == <<plan, jobs, cancel_flags, queue, wk, dir, now, sub, rd,
            attempts, fails, outcome, runs, vers, seen, obs, cancelAt, lj, fm,
            fs, loc, clk, cal>>

hist == <<attempts, fails, outcome, runs, seen, obs, cancelAt>>

Frame(pc, i, attempt, err, driver) ==
    [pc |-> pc, i |-> i, attempt |-> attempt, err |-> err, driver |-> driver]

IdleReader == [pc |-> "idle", job |-> 0, snap |-> [job_id |-> 0]]

\* No _wait_download call is looked at poll by poll.
NoDetector == [pc |-> "none"]

\* No list_jobs call has been made.
IdleLister == [pc |-> "idle", used |-> 0, pos |-> 0, out |-> <<>>, before |-> {}]

\* No MultiBaseFileManager method is called.
NoManager == [pc |-> "none"]

\* A part of the program that has its own specification runs alone: no runner has been
\* built (no job, no worker, no reader), and every other such part is idle.
Alone(part) ==
    /\ part = "fs" \/ fs = [pc |-> "none"]
    /\ part = "loc" \/ loc = [pc |-> "none"]
    /\ part = "clk" \/ clk = [pc |-> "none"]
    /\ part = "cal" \/ cal = [pc |-> "none"]
    /\ det = NoDetector
    /\ lj = IdleLister
    /\ fm = NoManager
    /\ plan = Plan(0, {}, 1, {})
    /\ jobs = <<>>
    /\ cancel_flags = <<>>
    /\ queue = <<>>
    /\ wk = [j \in JobIds |-> Frame("none", 0, 0, None, "none")]
    /\ dir = [j \in JobIds |-> <<>>]
    /\ now = [j \in JobIds |-> 1]
    /\ sub = 0
    /\ rd = IdleReader
    /\ attempts = [j \in JobIds |-> <<>>]
    /\ fails = [j \in JobIds |-> <<>>]
    /\ outcome = [j \in JobIds |-> <<>>]
    /\ runs = [j \in JobIds |-> 0]
    /\ vers = {}
    /\ seen = [j \in JobIds |-> <<>>]
    /\ obs = [j \in JobIds |-> None]
    /\ cancelAt = [j \in JobIds |-> None]

InitWith(p) ==
    /\ det = NoDetector
    /\ lj = IdleLister
    /\ fm = NoManager
    /\ fs = [pc |-> "none"]
    /\ loc = [pc |-> "none"]
    /\ clk = [pc |-> "none"]
    /\ cal = [pc |-> "none"]
    /\ plan = p
    /\ jobs = <<>>
    /\ cancel_flags = <<>>
    /\ queue = <<>>
    /\ wk = [j \in JobIds |-> Frame("none", 0, 0, None, "none")]
    /\ dir = [j \in JobIds |-> <<>>]
    /\ now = [j \in JobIds |-> 1]
    /\ sub = 0
    /\ rd = IdleReader
    /\ attempts = [j \in JobIds |-> <<>>]
    /\ fails = [j \in JobIds |-> <<>>]
    /\ outcome = [j \in JobIds |-> <<>>]
    /\ runs = [j \in JobIds |-> 0]
    /\ vers = {}
    /\ seen = [j \in JobIds |-> <<>>]
    /\ obs = [j \in JobIds |-> None]
    /\ cancelAt = [j \in JobIds |-> None]

\* The step lists of Flows are run by a pool of one thread: a job's steps touch no other job.
Init == InitWith(Plan(MaxJobs, Flows, 1, {NoSubdir}))

InitPool == InitWith(Plan(MaxPoolJobs, PoolFlows, MaxWorkers, {NoSubdir}))

\* The second start_flow may name the directory of the first job as its out_subdir.
InitStore == InitWith(Plan(MaxPoolJobs, PoolFlows, 1, {NoSubdir, <<1>>}))

\* Jobs that wait in the queue of a pool of one thread.
InitLive == InitWith(Plan(MaxPoolJobs, PoolFlows, 1, {NoSubdir}))

\* get_status is polled on one job: the records of different jobs share no field.
InitStatus == InitWith(Plan(1, StatusFlows, 1, {NoSubdir}))

\* The fields of a job that _run writes, as get_status reports them.
Fields(job) ==
    [state |-> job.state, message |-> job.message, started_at |-> job.started_at,
     finished_at |-> job.finished_at, result |-> ResultDict(job.result)]

\* A write of _run to job j, seen by the get_status call in progress.
TrackVers(j) ==
    vers' = IF rd.pc # "idle" /\ rd.job = j THEN vers \cup {Fields(jobs'[j])} ELSE vers

\* ------------------------------------------------------------- start_flow
\* out_dir = self.download_root / (out_subdir or "") / job_id, as the components below
\* download_root
OutDir(out_subdir, job_id) == out_subdir \o <<job_id>>

\* job_id = uuid4().hex ... self._jobs[job_id] = job
StartFlowStore(steps, out_subdir) ==
    /\ sub = 0
    /\ Len(jobs) < plan.limit
    /\ steps \in plan.flows
    /\ out_subdir \in plan.subdirs
    /\ LET id == Len(jobs) + 1 IN
        /\ jobs' = Append(jobs, FlowJob(id, OutDir(out_subdir, id), steps, now[id]))
        /\ sub' = id
        /\ dir' = [dir EXCEPT ![id] = <<>>]
        /\ attempts' = [attempts EXCEPT ![id] = [i \in DOMAIN steps |-> 0]]
        /\ fails' = [fails EXCEPT ![id] = [i \in DOMAIN steps |-> 0]]
        /\ outcome' = [outcome EXCEPT ![id] = [i \in DOMAIN steps |-> "none"]]
        /\ now' = [now EXCEPT ![id] = @ + 1]
    /\ UNCHANGED <<det, lj, fm, fs, loc, clk, cal, plan, cancel_flags, queue, wk, rd, runs, vers, seen, obs, cancelAt>>

\* self._cancel_flags[job_id] = flag; self._executor.submit(self._run, job, flag); return job_id
StartFlowSubmit ==
    /\ sub # 0
    /\ cancel_flags' = (sub :> FALSE) @@ cancel_flags
    /\ queue' = Append(queue, sub)
    /\ wk' = [wk EXCEPT ![sub].pc = "queued"]
    /\ sub' = 0
    /\ UNCHANGED <<det, lj, fm, fs, loc, clk, cal, plan, jobs, dir, now, rd, vers, hist>>

\* ------------------------------------------------------------------ cancel
\* A cancel that also marks the job: job.state = JobState.CANCELED.
CancelJobsMarksCanceled(j) ==
    IF j \in DOMAIN jobs THEN [jobs EXCEPT ![j].state = CANCELED] ELSE jobs

\* A cancel that stamps the job: job.finished_at = time.time().
CancelJobsStampsFinished(j) ==
    IF j \in DOMAIN jobs THEN [jobs EXCEPT ![j].finished_at = now[j]] ELSE jobs

\* What cancel does to the stored jobs: nothing.
CancelJobs(j) == jobs

\* A cancel that toggles the flag: a second call clears it.
CancelFlagsToggle(j) == [cancel_flags EXCEPT ![j] = ~@]

\* flag.set()
CancelFlags(j) == [cancel_flags EXCEPT ![j] = TRUE]

\* The dict cancel returns.
CancelResponse(j) ==
    IF j \notin DOMAIN jobs THEN [error |-> "job not found", job_id |-> j]
    ELSE IF j \in DOMAIN cancel_flags THEN [ok |-> TRUE, job_id |-> j]
    ELSE [ok |-> FALSE, job_id |-> j, message |-> "no cancel flag"]

\* A cancel that arms a signal for whatever id it is given.
CancelArmsMissing(j) ==
    /\ cancel_flags' = (j :> TRUE) @@ cancel_flags
    /\ UNCHANGED <<det, lj, fm, fs, loc, clk, cal, plan, jobs, queue, wk, dir, now, sub, rd, vers, attempts, fails, outcome,
                   runs, seen, obs, cancelAt>>

\* The two dictionary reads of cancel see the job only after start_flow stored it and the
\* flag only after start_flow stored that: taken at one instant they give every answer
\* that two reads at different instants give.
Cancel(j) ==
    /\ cancel_flags' = IF j \in DOMAIN jobs /\ j \in DOMAIN cancel_flags
                       THEN CancelFlags(j) ELSE cancel_flags
    /\ jobs' = CancelJobs(j)
    /\ cancelAt' = IF j \in DOMAIN jobs /\ j \in DOMAIN cancel_flags /\ ~cancel_flags[j]
                   THEN [cancelAt EXCEPT ![j] = jobs[j].state] ELSE cancelAt
    /\ UNCHANGED <<det, lj, fm, fs, loc, clk, cal, plan, queue, wk, dir, now, sub, rd, vers, attempts, fails, outcome,
                   runs, seen, obs>>

\* -------------------------------------------------------------------- _run
\* An executor that counts no thread as busy: it starts a thread for every submission.
ActiveNone == {}

\* Jobs whose _run occupies a thread of the pool.
Active == {j \in JobIds : wk[j].pc \notin {"none", "queued", "done"}}

\* A _run that does not mark the job RUNNING.
FirstStateLeftPending == PENDING

\* job.state = JobState.RUNNING, the first statement of _run.
FirstState == RUNNING

\* A free thread of the pool takes the oldest submission.
Begin(j) ==
    /\ queue # <<>>
    /\ j = Head(queue)
    /\ Cardinality(Active) < plan.workers
    /\ queue' = Tail(queue)
    /\ jobs' = [jobs EXCEPT ![j].state = FirstState]
    /\ wk' = [wk EXCEPT ![j].pc = "started_at"]
    /\ runs' = [runs EXCEPT ![j] = @ + 1]
    /\ TrackVers(j)
    /\ UNCHANGED <<det, lj, fm, fs, loc, clk, cal, plan, cancel_flags, dir, now, sub, rd, attempts, fails, outcome, seen, obs,
                   cancelAt>>

\* job.started_at = time.time()
StampStarted(j) ==
    /\ wk[j].pc = "started_at"
    /\ jobs' = [jobs EXCEPT ![j].started_at = now[j]]
    /\ now' = [now EXCEPT ![j] = @ + 1]
    /\ wk' = [wk EXCEPT ![j].pc = "build"]
    /\ TrackVers(j)
    /\ UNCHANGED <<det, lj, fm, fs, loc, clk, cal, plan, cancel_flags, queue, dir, sub, rd, hist>>

\* driver = self._build_driver(job.out_dir): a session, or the exception of webdriver.Chrome
BuildDriver(j) ==
    /\ wk[j].pc = "build"
    /\ \/ wk' = [wk EXCEPT ![j].pc = "loop", ![j].i = 1, ![j].driver = "open"]
       \/ wk' = [wk EXCEPT ![j].pc = "except", ![j].err = "WebDriverException"]
    /\ UNCHANGED <<det, lj, fm, fs, loc, clk, cal, plan, jobs, cancel_flags, queue, dir, now, sub, rd, vers, hist>>

\* if cancel.is_set()
CancelSeen(j) == cancel_flags[j]

\* A lookup that finds a handler for every string.
SupportedAny(act) == TRUE

\* act_key = step.act if isinstance(step.act, Act) else Act(step.act): Act(...) raises
\* ValueError for a string that is no member; every member has a handler in action_map.
Supported(act) == act \in Acts

\* The head of the loop with steps left: the cancel check, then _exec_step up to the
\* lookup of the handler.
LoopStep(j) ==
    /\ wk[j].pc = "loop"
    /\ wk[j].i <= Len(jobs[j].steps)
    /\ IF CancelSeen(j)
       THEN /\ jobs' = [jobs EXCEPT ![j].state = CANCELED]
            /\ wk' = [wk EXCEPT ![j].pc = "cancel_msg"]
            /\ TrackVers(j)
            /\ UNCHANGED outcome
       ELSE /\ IF Supported(jobs[j].steps[wk[j].i].act)
               THEN /\ wk' = [wk EXCEPT ![j].pc = "attempt", ![j].attempt = 0]
                    /\ UNCHANGED outcome
               ELSE /\ wk' = [wk EXCEPT ![j].pc = "except", ![j].err = "ValueError"]
                    /\ outcome' = [outcome EXCEPT ![j][wk[j].i] = "failed"]
            /\ UNCHANGED <<det, lj, fm, fs, loc, clk, cal, plan, jobs, vers>>
    /\ UNCHANGED <<det, lj, fm, fs, loc, clk, cal, plan, cancel_flags, queue, dir, now, sub, rd, attempts, fails, runs, seen,
                   obs, cancelAt>>

\* job.message = "canceled by user"; return
CancelMsg(j) ==
    /\ wk[j].pc = "cancel_msg"
    /\ jobs' = [jobs EXCEPT ![j].message = CanceledMessage]
    /\ wk' = [wk EXCEPT ![j].pc = "finally"]
    /\ TrackVers(j)
    /\ UNCHANGED <<det, lj, fm, fs, loc, clk, cal, plan, cancel_flags, queue, dir, now, sub, rd, hist>>

\* ------------------------------------------------------------- _exec_step
\* for _ in range(retry + 2)
MaxAttemptsOneMore(retry) == retry + 2

\* for _ in range(retry + 1)
MaxAttempts(retry) == retry + 1

\* A loop that gives up at the first exception: except Exception as e: raise
RetriedNever(e) == FALSE

\* except Exception as e: last_err = e; time.sleep(0.5)
Retried(e) == TRUE

\* An except clause that returns without looking at step.optional.
SwallowedAlways(step, e) == e \in Transient

\* except (TimeoutException, NoSuchElementException, ElementClickInterceptedException):
\*     if getattr(step, "optional", False): return
Swallowed(step, e) == e \in Transient /\ step.optional

\* glob.glob(str(folder / pattern)) for the patterns of the model; every file without one.
Matches(f, pattern) ==
    IF pattern = None THEN TRUE
    ELSE IF pattern = "*.xlsx" THEN f = "report.xlsx"
    ELSE f = pattern

\* A filter that lets every file through.
InProgressNever(f) == FALSE

\* p.name.endswith(".crdownload"): the one file of the model with that suffix.
InProgress(f) == f = "report.xlsx.crdownload"

\* The files _wait_for_download chooses among: the pattern's, without those in progress.
Candidates(d, pattern) == {k \in DOMAIN d : Matches(d[k], pattern) /\ ~InProgress(d[k])}

\* max(files, key=lambda p: p.stat().st_mtime)
Latest(d, ks) == d[CHOOSE k \in ks : \A m \in ks : m <= k]

FileResult(f) == DownloadResult(f, FileSize(f), Sha256(f))

\* driver.save_screenshot(str(p)): the new file is the most recently modified one.
Touch(d, f) == Append(SelectSeq(d, LAMBDA x : x # f), f)

\* What one call of the step's handler can do: return, or raise.  _wait_download returns
\* only with a file that _wait_for_download found settled.
HandlerOutcomes(j, step) ==
    Raises(step.act) \cup
    (IF step.act = "wait_download" /\ Candidates(dir[j], step.value) = {} THEN {} ELSE {"ok"})

\* One pass of the loop of _with_retry, and what follows from it in _exec_step.
Attempt(j) ==
    /\ wk[j].pc = "attempt"
    /\ LET i == wk[j].i
           step == jobs[j].steps[i]
       IN \E o \in HandlerOutcomes(j, step) :
            /\ attempts' = [attempts EXCEPT ![j][i] = @ + 1]
            /\ IF o = "ok"
               THEN /\ wk' = [wk EXCEPT ![j].pc = "loop", ![j].i = i + 1, ![j].attempt = 0,
                                        ![j].err = None]
                    /\ outcome' = [outcome EXCEPT ![j][i] = "ok"]
                    /\ jobs' = IF step.act = "wait_download"
                               THEN [jobs EXCEPT ![j].result =
                                        << FileResult(Latest(dir[j], Candidates(dir[j], step.value))) >>]
                               ELSE jobs
                    /\ dir' = IF step.act = "screenshot"
                              THEN [dir EXCEPT ![j] = Touch(@, "shot.png")] ELSE dir
                    /\ UNCHANGED fails
               ELSE /\ fails' = [fails EXCEPT ![j][i] = @ + 1]
                    /\ UNCHANGED <<det, lj, fm, fs, loc, clk, cal, plan, jobs, dir>>
                    /\ IF Retried(o) /\ wk[j].attempt + 1 < MaxAttempts(step.retry)
                       THEN /\ wk' = [wk EXCEPT ![j].attempt = @ + 1, ![j].err = o]
                            /\ UNCHANGED outcome
                       ELSE IF Swallowed(step, o)
                       THEN /\ wk' = [wk EXCEPT ![j].pc = "loop", ![j].i = i + 1,
                                                ![j].attempt = 0, ![j].err = None]
                            /\ outcome' = [outcome EXCEPT ![j][i] = "skipped"]
                       ELSE /\ wk' = [wk EXCEPT ![j].pc = "except", ![j].err = o]
                            /\ outcome' = [outcome EXCEPT ![j][i] = "failed"]
    /\ TrackVers(j)
    /\ UNCHANGED <<det, lj, fm, fs, loc, clk, cal, plan, cancel_flags, queue, now, sub, rd, runs, seen, obs, cancelAt>>

\* The browser of job j writes the file of a download into the job's directory.
BrowserDownload(j) ==
    /\ wk[j].driver = "open"
    /\ wk[j].pc \in {"loop", "attempt"}
    /\ \A k \in DOMAIN dir[j] : dir[j][k] # "report.xlsx"
    /\ dir' = [dir EXCEPT ![j] = Append(@, "report.xlsx")]
    /\ UNCHANGED <<det, lj, fm, fs, loc, clk, cal, plan, jobs, cancel_flags, queue, wk, now, sub, rd, vers, hist>>

\* ------------------------------------------------------ the end of _run
\* _detect_latest_file: DownloadResult() without files, else the latest file's.
DetectLatestFile(d) ==
    IF d = <<>> THEN EmptyDownloadResult ELSE FileResult(Latest(d, DOMAIN d))

\* Whether the path a is the path b or an ancestor of it.
IsPrefix(a, b) == Len(a) <= Len(b) /\ SubSeq(b, 1, Len(a)) = a

\* folder.glob("**/*") descends: it yields the files of job j's out_dir and those of
\* every directory below it, the out_dir of another job included if it lies there.
Globbed(j) == {k \in DOMAIN jobs : IsPrefix(jobs[j].out_dir, jobs[k].out_dir)}

\* res = self._detect_latest_file(job.out_dir); job.result = res
\* (stat and open raise OSError for a file that went away after the listing).  The model
\* keeps the order of modification within a directory: of several directories with files
\* the latest file is the latest of one of them.
Detect(j) ==
    /\ wk[j].pc = "loop"
    /\ wk[j].i > Len(jobs[j].steps)
    /\ \/ \E k \in Globbed(j) :
             /\ dir[k] = <<>> => \A m \in Globbed(j) : dir[m] = <<>>
             /\ jobs' = [jobs EXCEPT ![j].result = << DetectLatestFile(dir[k]) >>]
             /\ wk' = [wk EXCEPT ![j].pc = "success"]
             /\ TrackVers(j)
       \/ /\ \E k \in Globbed(j) : dir[k] # <<>>
          /\ wk' = [wk EXCEPT ![j].pc = "except", ![j].err = "OSError"]
          /\ UNCHANGED <<det, lj, fm, fs, loc, clk, cal, plan, jobs, vers>>
    /\ UNCHANGED <<det, lj, fm, fs, loc, clk, cal, plan, cancel_flags, queue, dir, now, sub, rd, hist>>

\* A _run that looks at the flag once more after the loop.
SuccessStateUnlessCanceled(j) == IF cancel_flags[j] THEN CANCELED ELSE SUCCESS

\* The state _run writes after the loop and the detection: SUCCESS, whatever the flag.
SuccessState(j) == SUCCESS

\* job.state = JobState.SUCCESS
SetSuccess(j) ==
    /\ wk[j].pc = "success"
    /\ jobs' = [jobs EXCEPT ![j].state = SuccessState(j)]
    /\ wk' = [wk EXCEPT ![j].pc = "ok_msg"]
    /\ TrackVers(j)
    /\ UNCHANGED <<det, lj, fm, fs, loc, clk, cal, plan, cancel_flags, queue, dir, now, sub, rd, hist>>

\* job.message = "ok"
SetOkMsg(j) ==
    /\ wk[j].pc = "ok_msg"
    /\ jobs' = [jobs EXCEPT ![j].message = OkMessage]
    /\ wk' = [wk EXCEPT ![j].pc = "finally"]
    /\ TrackVers(j)
    /\ UNCHANGED <<det, lj, fm, fs, loc, clk, cal, plan, cancel_flags, queue, dir, now, sub, rd, hist>>

\* except Exception as e: job.state = JobState.FAILED
ExceptState(j) ==
    /\ wk[j].pc = "except"
    /\ jobs' = [jobs EXCEPT ![j].state = FAILED]
    /\ wk' = [wk EXCEPT ![j].pc = "fail_msg"]
    /\ TrackVers(j)
    /\ UNCHANGED <<det, lj, fm, fs, loc, clk, cal, plan, cancel_flags, queue, dir, now, sub, rd, hist>>

\* job.message = f"{type(e).__name__}: {e}"
ExceptMsg(j) ==
    /\ wk[j].pc = "fail_msg"
    /\ jobs' = [jobs EXCEPT ![j].message = FailMessage(wk[j].err)]
    /\ wk' = [wk EXCEPT ![j].pc = "finally"]
    /\ TrackVers(j)
    /\ UNCHANGED <<det, lj, fm, fs, loc, clk, cal, plan, cancel_flags, queue, dir, now, sub, rd, hist>>

\* A finally block that leaves finished_at as it is.
FinishedAtUnset(j) == NoTime

\* A finally block that stamps the job with the time of its creation.
FinishedAtCreated(j) == jobs[j].created_at

\* time.time() in the finally block
FinishedAt(j) == now[j]

\* finally: job.finished_at = time.time()
Finally(j) ==
    /\ wk[j].pc = "finally"
    /\ jobs' = [jobs EXCEPT ![j].finished_at = FinishedAt(j)]
    /\ now' = [now EXCEPT ![j] = @ + 1]
    /\ wk' = [wk EXCEPT ![j].pc = "quit"]
    /\ TrackVers(j)
    /\ UNCHANGED <<det, lj, fm, fs, loc, clk, cal, plan, cancel_flags, queue, dir, sub, rd, hist>>

\* A finally block that calls quit without the test `if driver`.
QuitResultsUnguarded(driver) == {"closed", "quit_failed"}

\* if driver: driver.quit() -- it closes the session, or it raises; no call without one.
QuitResults(driver) == IF driver = "open" THEN {"closed", "quit_failed"} ELSE {driver}

\* A finally block that records the failure of quit: except Exception: job.state = FAILED
QuitJobsRecordsFailure(j, r) ==
    IF r = "quit_failed"
    THEN [jobs EXCEPT ![j].state = FAILED, ![j].message = FailMessage("WebDriverException")]
    ELSE jobs

\* What the try around driver.quit() does to the stored jobs: nothing (except Exception: pass).
QuitJobs(j, r) == jobs

\* try: if driver: driver.quit() except Exception: pass -- and the thread is free again
Quit(j) ==
    /\ wk[j].pc = "quit"
    /\ \E r \in QuitResults(wk[j].driver) :
          /\ wk' = [wk EXCEPT ![j].pc = "done", ![j].driver = r]
          /\ jobs' = QuitJobs(j, r)
    /\ UNCHANGED <<det, lj, fm, fs, loc, clk, cal, plan, cancel_flags, queue, dir, now, sub, rd, vers, hist>>

\* -------------------------------------------------------------- get_status
\* job = self._jobs.get(job_id), found: to_dict begins ("job_id": self.job_id)
GetStatusBegin(j) ==
    /\ rd.pc = "idle"
    /\ j \in DOMAIN jobs
    /\ rd' = [pc |-> "state", job |-> j, snap |-> [job_id |-> jobs[j].job_id]]
    /\ vers' = {Fields(jobs[j])}
    /\ UNCHANGED <<det, lj, fm, fs, loc, clk, cal, plan, jobs, cancel_flags, queue, wk, dir, now, sub, hist>>

\* job = self._jobs.get(job_id), not found: {"error": "job not found", "job_id": job_id}
GetStatusMissing(j) ==
    /\ rd.pc = "idle"
    /\ j \notin DOMAIN jobs
    /\ obs' = [obs EXCEPT ![j] = "job not found"]
    /\ UNCHANGED <<det, lj, fm, fs, loc, clk, cal, plan, jobs, cancel_flags, queue, wk, dir, now, sub, rd, vers, attempts,
                   fails, outcome, runs, seen, cancelAt>>

\* The entries of the dict display of to_dict, evaluated in their order; created_at and
\* out_dir never change after construction and are read along with their neighbours.
ReadField(pc, job) ==
    CASE pc = "state" -> [state |-> job.state]
      [] pc = "message" -> [message |-> job.message, created_at |-> job.created_at]
      [] pc = "started_at" -> [started_at |-> job.started_at]
      [] pc = "finished_at" -> [finished_at |-> job.finished_at, out_dir |-> job.out_dir]
      [] pc = "result" -> [result |-> ResultDict(job.result)]

NextField(pc) ==
    CASE pc = "state" -> "message"
      [] pc = "message" -> "started_at"
      [] pc = "started_at" -> "finished_at"
      [] pc = "finished_at" -> "result"

GetStatusRead ==
    /\ rd.pc \in {"state", "message", "started_at", "finished_at"}
    /\ rd' = [rd EXCEPT !.pc = NextField(rd.pc),
                        !.snap = ReadField(rd.pc, jobs[rd.job]) @@ @]
    /\ UNCHANGED <<det, lj, fm, fs, loc, clk, cal, plan, jobs, cancel_flags, queue, wk, dir, now, sub, vers, hist>>

\* The written fields of a returned status.
StatusFields(st) ==
    [state |-> st.state, message |-> st.message, started_at |-> st.started_at,
     finished_at |-> st.finished_at, result |-> st.result]

\* The dict a get_status call that is at its last entry returns if it reads it now.
Returned == ReadField("result", jobs[rd.job]) @@ rd.snap

\* The last entry is read and get_status returns the dict.
GetStatusReturn ==
    /\ rd.pc = "result"
    /\ LET st == Returned
           j == rd.job
       IN /\ seen' = IF seen[j] = <<>> /\ st.state \in Terminal
                     THEN [seen EXCEPT ![j] = <<st>>] ELSE seen
          /\ obs' = [obs EXCEPT ![j] = st.state]
    /\ rd' = IdleReader
    /\ vers' = {}
    /\ UNCHANGED <<det, lj, fm, fs, loc, clk, cal, plan, jobs, cancel_flags, queue, wk, dir, now, sub, attempts, fails, outcome,
                   runs, cancelAt>>

\* ------------------------------------------- _wait_download, poll by poll
\* The files a browser puts into the directory while a download step waits: the
\* download under its final name, the same download while Chrome is writing it, and a
\* file that is not the download.
DetFiles == {"report.xlsx", "shot.png", "report.xlsx.crdownload"}

DetSizes == 1..MaxSize

\* The bytes of a file of the watched directory: a download grows, so that the bytes
\* are known from the name and the size.
Bytes(f, size) == <<f, size>>

\* The frame of a _wait_download call at its first poll with nothing in the directory.
\* files: the names, least recently modified first; size: st_size by name; seen: the
\* dict of _wait_for_download (NoSize: no entry); window: the polls that fit in the
\* timeout; prev, settled: history (the file and size the previous poll chose, the
\* ones the returning poll chose).
Detector(pattern, window) ==
    [pc |-> "poll", pattern |-> pattern, window |-> window, polls |-> 0,
     files |-> <<>>, size |-> [f \in DetFiles |-> NoSize], writes |-> 0,
     seen |-> [f \in DetFiles |-> NoSize], target |-> None, file_size |-> NoSize,
     result |-> NoResult, err |-> None, prev |-> <<>>, settled |-> <<>>]

InitDetect ==
    /\ det \in {Detector(pattern, window) : pattern \in {None, "*.xlsx"}, window \in 1..MaxPolls}
    /\ lj = IdleLister
    /\ fm = NoManager
    /\ fs = [pc |-> "none"]
    /\ loc = [pc |-> "none"]
    /\ clk = [pc |-> "none"]
    /\ cal = [pc |-> "none"]
    /\ plan = Plan(0, {}, 1, {})
    /\ jobs = <<>>
    /\ cancel_flags = <<>>
    /\ queue = <<>>
    /\ wk = [j \in JobIds |-> Frame("none", 0, 0, None, "none")]
    /\ dir = [j \in JobIds |-> <<>>]
    /\ now = [j \in JobIds |-> 1]
    /\ sub = 0
    /\ rd = IdleReader
    /\ attempts = [j \in JobIds |-> <<>>]
    /\ fails = [j \in JobIds |-> <<>>]
    /\ outcome = [j \in JobIds |-> <<>>]
    /\ runs = [j \in JobIds |-> 0]
    /\ vers = {}
    /\ seen = [j \in JobIds |-> <<>>]
    /\ obs = [j \in JobIds |-> None]
    /\ cancelAt = [j \in JobIds |-> None]

\* The browser creates file f or writes to it: f has size s and is the latest file.
DetBrowserWrite(f, s) ==
    /\ det.pc \in {"poll", "stat", "sha"}
    /\ det.writes < MaxWrites
    /\ det' = [det EXCEPT !.files = Touch(@, f), !.size[f] = s, !.writes = @ + 1]
    /\ UNCHANGED runner

\* Chrome ends a download: the .crdownload file gets the final name, in place of a file
\* of that name; a rename leaves size and modification time as they are.
DetBrowserRename ==
    /\ det.pc \in {"poll", "stat", "sha"}
    /\ det.writes < MaxWrites
    /\ \E k \in DOMAIN det.files : det.files[k] = "report.xlsx.crdownload"
    /\ LET others == SelectSeq(det.files, LAMBDA x : x # "report.xlsx")
       IN det' = [det EXCEPT
                    !.files = [k \in DOMAIN others |->
                                  IF others[k] = "report.xlsx.crdownload"
                                  THEN "report.xlsx" ELSE others[k]],
                    !.size["report.xlsx"] = det.size["report.xlsx.crdownload"],
                    !.size["report.xlsx.crdownload"] = NoSize,
                    !.writes = @ + 1]
    /\ UNCHANGED runner

\* not (time.time() < end): the polls that fit in the timeout are made.
WindowOver(d) == d.polls >= d.window

\* One pass of the loop of _wait_for_download: list, filter, choose the latest, compare
\* its size with the entry of seen; return it, or note the size and sleep.
WaitForDownloadPoll ==
    /\ det.pc = "poll"
    /\ ~WindowOver(det)
    /\ LET ks == Candidates(det.files, det.pattern) IN
        IF ks = {}
        THEN det' = [det EXCEPT !.polls = @ + 1, !.prev = <<>>]
        ELSE LET latest == Latest(det.files, ks)
                 size == det.size[latest]
             IN IF det.seen[latest] = size
                THEN det' = [det EXCEPT !.pc = "stat", !.target = latest,
                                        !.settled = << [file |-> latest, size |-> size] >>]
                ELSE det' = [det EXCEPT !.polls = @ + 1, !.seen[latest] = size,
                                        !.prev = << [file |-> latest, size |-> size] >>]
    /\ UNCHANGED runner

\* The loop ends: return None, and _wait_download raises
\* TimeoutException("download not detected").
WaitDownloadRaise ==
    /\ det.pc = "poll"
    /\ WindowOver(det)
    /\ det' = [det EXCEPT !.pc = "done", !.err = "TimeoutException"]
    /\ UNCHANGED runner

\* file_size=target.stat().st_size
WaitDownloadStat ==
    /\ det.pc = "stat"
    /\ det' = [det EXCEPT !.pc = "sha", !.file_size = det.size[det.target]]
    /\ UNCHANGED runner

\* sha256=self._sha256(target); job.result = DownloadResult(...)
WaitDownloadSha ==
    /\ det.pc = "sha"
    /\ det' = [det EXCEPT !.pc = "done",
                          !.result = << DownloadResult(det.target, det.file_size,
                                           Sha256(Bytes(det.target, det.size[det.target]))) >>]
    /\ UNCHANGED runner

\* --------------------------------------------------------------- list_jobs
\* FlowJob.to_dict, all its entries read at one instant.
ToDict(job) ==
    [job_id |-> job.job_id] @@ ReadField("state", job) @@ ReadField("message", job)
        @@ ReadField("started_at", job) @@ ReadField("finished_at", job)
        @@ ReadField("result", job)

\* One step of the comprehension [j.to_dict() for j in self._jobs.values()]: the
\* iterator's next and the to_dict of what it yields.  next raises RuntimeError
\* ("dictionary changed size during iteration") if the dict no longer has the size it
\* had when the iterator was created, also when it has no value left to yield; a dict
\* yields its values in the order of insertion.
ListJobsStep(l) ==
    IF Len(jobs) # l.used THEN [l EXCEPT !.pc = "error", !.out = <<>>]
    ELSE IF l.pos < l.used
         THEN [l EXCEPT !.pos = @ + 1, !.out = Append(@, ToDict(jobs[l.pos + 1]))]
         ELSE [l EXCEPT !.pc = "done"]

\* list_jobs is called (one call is looked at): the iterator is created and asked for its
\* first value.  before notes the jobs whose start_flow had returned by then.
ListJobsBegin ==
    /\ lj.pc = "idle"
    /\ lj' = ListJobsStep([pc |-> "iter", used |-> Len(jobs), pos |-> 0, out |-> <<>>,
                           before |-> DOMAIN cancel_flags])
    /\ UNCHANGED <<det, fm, fs, loc, clk, cal, plan, jobs, cancel_flags, queue, wk, dir, now, sub, rd, vers, hist>>

\* The comprehension goes on after the threads ran that the interpreter let in meanwhile;
\* with the iterator exhausted list_jobs returns {"jobs": out}.
ListJobsNext ==
    /\ lj.pc = "iter"
    /\ lj' = ListJobsStep(lj)
    /\ UNCHANGED <<det, fm, fs, loc, clk, cal, plan, jobs, cancel_flags, queue, wk, dir, now, sub, rd, vers, hist>>

\* ---------------------------------------------------- MultiBaseFileManager
\* A file name is the sequence of its characters; ".." is the parent directory.
NameData == <<"d", "a", "t", "a">>

NameData2 == <<"d", "a", "t", "a", "2">>

NameHome == <<"h", "o", "m", "e">>

NameF == <<"f">>

DotDot == <<".", ".">>

PathNames == {NameData, NameData2, NameHome, NameF, DotDot}

\* A directory is the sequence of the names from the root of the file system to it.
\* self.allowed, resolved and without duplicates: /data and /home/f.
Allowed == << <<NameData>>, <<NameHome, NameF>> >>

\* A Path argument: absolute or relative, and its components.
PathArg(absolute, parts) == [absolute |-> absolute, parts |-> parts]

PathArgs ==
    {PathArg(a, parts) : a \in BOOLEAN, parts \in UNION {[1..n -> PathNames] : n \in 0..MaxDepth}}

\* base / p: an absolute p replaces the base.
Join(base, p) == IF p.absolute THEN p.parts ELSE base \o p.parts

\* Path.resolve() of an absolute path in a tree without symbolic links: every ".." drops
\* the component before it, and the parent of the root is the root.
RECURSIVE Normalized(_, _)
Normalized(parts, acc) ==
    IF parts = <<>> THEN acc
    ELSE IF Head(parts) = DotDot
         THEN Normalized(Tail(parts), IF acc = <<>> THEN acc ELSE SubSeq(acc, 1, Len(acc) - 1))
         ELSE Normalized(Tail(parts), Append(acc, Head(parts)))

Resolve(parts) == Normalized(parts, <<>>)

\* str(q) of an absolute path: "/" for the root, else "/" before every name.
RECURSIVE Joined(_)
Joined(parts) == IF parts = <<>> THEN <<>> ELSE <<"/">> \o Head(parts) \o Joined(Tail(parts))

Str(q) == IF q = <<>> THEN <<"/">> ELSE Joined(q)

\* sq.startswith(t)
StartsWith(sq, t) == Len(t) <= Len(sq) /\ SubSeq(sq, 1, Len(t)) = t

\* _is_under_allowed: str(q) starts with the str of some base.
IsUnderAllowed(q) == \E b \in DOMAIN Allowed : StartsWith(Str(q), Str(Allowed[b]))

\* The method whose path check is looked at: stat(path) and listdir(base_index, rel) go
\* through _safe_resolve, extract_absolute(absolute_path) resolves and checks by itself.
ManagerOps == {"stat", "listdir", "extract_absolute"}

ManagerCall(op, base_index, p) ==
    [pc |-> "call", op |-> op, base_index |-> base_index, path |-> p,
     q |-> <<>>, err |-> None, touched |-> {}]

ManagerCalls ==
    {ManagerCall(op, b, p) : op \in ManagerOps, b \in DOMAIN Allowed, p \in PathArgs}

\* q = p if p.is_absolute() else (self.allowed[default_base_index] / p); q = q.resolve()
\* stat calls _safe_resolve with the default base 0 (the first of Allowed); listdir hands
\* it root / rel; extract_absolute resolves the absolute path it is given.
Resolved(c) ==
    Resolve(IF c.op = "stat" THEN Join(Allowed[1], c.path)
            ELSE IF c.op = "listdir" THEN Join(Allowed[c.base_index], c.path)
            ELSE c.path.parts)

\* if not self._is_under_allowed(q): raise PermissionError(...)
SafeResolve ==
    /\ fm.pc = "call"
    /\ LET q == Resolved(fm)
       IN fm' = IF IsUnderAllowed(q) THEN [fm EXCEPT !.pc = "access", !.q = q]
                ELSE [fm EXCEPT !.pc = "raised", !.q = q, !.err = "PermissionError"]
    /\ UNCHANGED <<det, lj, fs, loc, clk, cal, plan, jobs, cancel_flags, queue, wk, dir, now, sub, rd, vers, hist>>

\* p.exists(), p.is_file(), p.stat(), target.iterdir(), _hash_file(info.path): the method
\* looks at what is at q, and reads or lists it if it is what the method wants.
FileAccess ==
    /\ fm.pc = "access"
    /\ \E e \in {None, "FileNotFoundError"} :
          fm' = [fm EXCEPT !.pc = "done", !.err = e, !.touched = {fm.q}]
    /\ UNCHANGED <<det, lj, fs, loc, clk, cal, plan, jobs, cancel_flags, queue, wk, dir, now, sub, rd, vers, hist>>

\* One call of a file manager method with a path of PathArgs; extract_absolute is given
\* absolute paths.
InitPaths ==
    /\ fm \in {c \in ManagerCalls :
                 /\ c.op = "extract_absolute" => c.path.absolute
                 /\ c.op # "listdir" => c.base_index = 1}
    /\ det = NoDetector
    /\ lj = IdleLister
    /\ fs = [pc |-> "none"]
    /\ loc = [pc |-> "none"]
    /\ clk = [pc |-> "none"]
    /\ cal = [pc |-> "none"]
    /\ plan = Plan(0, {}, 1, {})
    /\ jobs = <<>>
    /\ cancel_flags = <<>>
    /\ queue = <<>>
    /\ wk = [j \in JobIds |-> Frame("none", 0, 0, None, "none")]
    /\ dir = [j \in JobIds |-> <<>>]
    /\ now = [j \in JobIds |-> 1]
    /\ sub = 0
    /\ rd = IdleReader
    /\ attempts = [j \in JobIds |-> <<>>]
    /\ fails = [j \in JobIds |-> <<>>]
    /\ outcome = [j \in JobIds |-> <<>>]
    /\ runs = [j \in JobIds |-> 0]
    /\ vers = {}
    /\ seen = [j \in JobIds |-> <<>>]
    /\ obs = [j \in JobIds |-> None]
    /\ cancelAt = [j \in JobIds |-> None]

\* ------------------------------------------------------------ _by_and_value
\* A selector is a string, written as the sequence of its characters.  The prefix that
\* marks an XPath selector:
XPathPrefix == <<"x", "p", "a", "t", "h", "=">>

\* The selectors the resolver is tried with: None, written as the empty tuple, and the
\* tuples around a string of whitespace, a head that is the prefix, a near miss of it or
\* nothing, a tail of path and selector characters, and whitespace.
Selectors ==
    LET pads == UNION {[1..n -> {" ", "\t"}] : n \in 0..MaxPad}
        heads == {<<>>, XPathPrefix, <<"x", "p", "a", "t", "h">>,
                  <<"X", "p", "a", "t", "h", "=">>}
        tails == UNION {[1..n -> {"/", "(", "#", " "}] : n \in 0..MaxTail}
    IN {<<>>} \cup {<<l \o h \o t \o r>> : l \in pads, h \in heads, t \in tails, r \in pads}

\* str.strip(): the string without its leading and trailing whitespace.
RECURSIVE Strip(_)
Strip(s) ==
    IF s # <<>> /\ Head(s) \in {" ", "\t"} THEN Strip(Tail(s))
    ELSE IF s # <<>> /\ s[Len(s)] \in {" ", "\t"} THEN Strip(SubSeq(s, 1, Len(s) - 1))
    ELSE s

\* A resolver that hands the selector with its prefix to the driver.
PrefixKept(s) == s

\* s[len("xpath="):]
PrefixCut(s) == SubSeq(s, Len(XPathPrefix) + 1, Len(s))

\* _by_and_value: the locating strategy and the value of a selector; (sel or "") makes
\* the empty string of a missing selector.
ByAndValue(sel) ==
    LET s == Strip(IF sel = <<>> THEN <<>> ELSE sel[1])
    IN IF StartsWith(s, XPathPrefix) THEN [by |-> "xpath", value |-> PrefixCut(s)]
       ELSE IF StartsWith(s, <<"/">>) \/ StartsWith(s, <<"(">>)
            THEN [by |-> "xpath", value |-> s]
            ELSE [by |-> "css selector", value |-> s]

\* One call: the selector is resolved.
ByAndValueCall ==
    /\ loc.pc = "call"
    /\ loc' = [loc EXCEPT !.pc = "done", !.out = <<ByAndValue(loc.sel)>>]
    /\ UNCHANGED <<det, lj, fm, fs, clk, cal, plan, jobs, cancel_flags, queue, wk, dir, now,
                   sub, rd, attempts, fails, outcome, runs, vers, seen, obs, cancelAt>>

\* ------------------------------------------------------------------- _click
\* Where the handler goes after the wait for the overlay: a handler that lets the failure
\* of the wait out, and the handler of the code, except Exception: pass
OverlayFailureRaises(res) == IF res = "ok" THEN "scroll" ELSE "failed"

OverlayGoes(res) == "scroll"

\* One operation of the click handler.  An operation returns ("ok") or raises: wait.until
\* gives up with TimeoutException, el.click() is intercepted by an element above the
\* target or fails because the element went stale, execute_script fails with
\* JavascriptException.  trace holds the operations of the attempt with what they did.
\*   wait:    el = wait.until(EC.element_to_be_clickable((by, val)))
\*   click:   try: el.click()  except ElementClickInterceptedException:
\*   overlay:     try: WebDriverWait(driver, 10).until(EC.invisibility_of_element_located(
\*                (By.CSS_SELECTOR, "#devloadingBar")))  except Exception: pass
\*   scroll:      driver.execute_script("arguments[0].scrollIntoView(...)", el); sleep
\*   again:       try: el.click()  except ElementClickInterceptedException:
\*   script:          driver.execute_script("arguments[0].click();", el)
ClickStep ==
    /\ clk.pc \in {"wait", "click", "overlay", "scroll", "again", "script"}
    /\ LET Goes(op, res, pc) ==
               clk' = [clk EXCEPT !.pc = pc, !.trace = Append(@, [op |-> op, res |-> res])]
           Ends(op, res) ==
               clk' = [clk EXCEPT !.pc = IF res = "ok" THEN "returned" ELSE "failed",
                                  !.trace = Append(@, [op |-> op, res |-> res]),
                                  !.err = IF res = "ok" THEN None ELSE res]
           clicks == {"ok", "ElementClickInterceptedException", "StaleElementReferenceException"}
       IN CASE clk.pc = "wait" ->
                 \E res \in {"ok", "TimeoutException"} :
                    IF res = "ok" THEN Goes("wait_clickable", res, "click")
                    ELSE Ends("wait_clickable", res)
            [] clk.pc = "click" ->
                 \E res \in clicks :
                    IF res = "ElementClickInterceptedException" THEN Goes("click", res, "overlay")
                    ELSE Ends("click", res)
            [] clk.pc = "overlay" ->
                 \E res \in {"ok", "TimeoutException"} :
                    IF OverlayGoes(res) = "failed" THEN Ends("wait_overlay", res)
                    ELSE Goes("wait_overlay", res, OverlayGoes(res))
            [] clk.pc = "scroll" ->
                 \E res \in {"ok", "JavascriptException"} :
                    IF res = "ok" THEN Goes("scroll", res, "again") ELSE Ends("scroll", res)
            [] clk.pc = "again" ->
                 \E res \in clicks :
                    IF res = "ElementClickInterceptedException" THEN Goes("click", res, "script")
                    ELSE Ends("click", res)
            [] clk.pc = "script" ->
                 \E res \in {"ok", "JavascriptException"} : Ends("script_click", res)
    /\ UNCHANGED <<det, lj, fm, fs, loc, cal, plan, jobs, cancel_flags, queue, wk, dir, now,
                   sub, rd, attempts, fails, outcome, runs, vers, seen, obs, cancelAt>>

\* _with_retry after an attempt that raised: the next pass of the loop, or raise last_err,
\* which _exec_step swallows for an optional step and a transient error.
ClickRetry ==
    /\ clk.pc = "failed"
    /\ IF clk.attempt < MaxAttempts(clk.step.retry)
       THEN clk' = [clk EXCEPT !.pc = "wait", !.attempt = @ + 1, !.trace = <<>>]
       ELSE clk' = [clk EXCEPT !.pc = IF Swallowed(clk.step, clk.err) THEN "skipped" ELSE "raised"]
    /\ UNCHANGED <<det, lj, fm, fs, loc, cal, plan, jobs, cancel_flags, queue, wk, dir, now,
                   sub, rd, attempts, fails, outcome, runs, vers, seen, obs, cancelAt>>

\* ------------------------------------------------------------ the file tree
\* The name of the files that are moved.
FileA == <<"a", ".", "t">>

\* A tree without symbolic links is the set of the resolved paths of its directories and,
\* for the path of every file, what is in the file.  The tree the calls start in: the
\* bases /data and /home/f with a.t in each, and a.t in /home, which is no base and
\* below none.
InitTree ==
    [dirs |-> {<<>>, <<NameData>>, <<NameHome>>, <<NameHome, NameF>>},
     files |-> (<<NameData, FileA>> :> 1) @@ (<<NameHome, NameF, FileA>> :> 2)
                  @@ (<<NameHome, FileA>> :> 3)]

\* The operating system looks a path up name by name: it gets to the last name when
\* every name before it leads to a directory, ".." included.
Reach(t, parts) ==
    IF \A k \in 1..(Len(parts) - 1) : Resolve(SubSeq(parts, 1, k)) \in t.dirs
    THEN <<Resolve(parts)>>
    ELSE <<>>

\* Path.exists()
Exists(t, parts) ==
    Reach(t, parts) # <<>> /\ Reach(t, parts)[1] \in t.dirs \cup DOMAIN t.files

\* Path.mkdir(parents=True, ...) where a name before the last leads nowhere: the missing
\* directories are made from the root on, until a name leads to a file.  What is left is
\* the tree and the exception.
RECURSIVE MkdirParents(_, _, _)
MkdirParents(t, parts, k) ==
    IF k > Len(parts) THEN [tree |-> t, err |-> None]
    ELSE LET q == Resolve(SubSeq(parts, 1, k))
         IN IF q \in DOMAIN t.files THEN [tree |-> t, err |-> "FileExistsError"]
            ELSE MkdirParents([t EXCEPT !.dirs = @ \cup {q}], parts, k + 1)

\* Path.mkdir(parents, exist_ok)
Mkdir(t, parts, parents, exist_ok) ==
    LET r == Reach(t, parts)
    IN IF r = <<>>
       THEN IF parents THEN MkdirParents(t, parts, 1)
            ELSE [tree |-> t, err |-> "FileNotFoundError"]
       ELSE IF r[1] \in t.dirs
            THEN [tree |-> t, err |-> IF exist_ok THEN None ELSE "FileExistsError"]
            ELSE IF r[1] \in DOMAIN t.files THEN [tree |-> t, err |-> "FileExistsError"]
                 ELSE [tree |-> [t EXCEPT !.dirs = @ \cup {r[1]}], err |-> None]

\* _safe_resolve(self.allowed[base_index] / p, default_base_index=base_index): the
\* resolved path, or nothing when PermissionError is raised.
SafeResolved(base_index, p) ==
    LET q == Resolve(Join(Allowed[base_index], p))
    IN IF IsUnderAllowed(q) THEN <<q>> ELSE <<>>

\* The calls of the folder tool and of move_many.  parent_rel and dst_folder_rel are the
\* base itself, a directory below it that is not there yet, or a path that leaves the
\* base; a folder name is a name, a name below a missing directory, a name behind ".."
\* or an absolute path; an item is a.t of either base with no new_name, another name, a
\* name behind ".." or an absolute path.
FileCalls ==
    LET folders == {PathArg(FALSE, <<>>), PathArg(FALSE, <<NameF>>),
                    PathArg(FALSE, <<DotDot, NameHome>>)}
        names == {PathArg(FALSE, <<NameF>>), PathArg(FALSE, <<NameF, NameF>>),
                  PathArg(FALSE, <<DotDot, NameF>>), PathArg(TRUE, <<NameF>>)}
        b_t == <<"b", ".", "t">>
        new_names == {<<>>, <<PathArg(FALSE, <<b_t>>)>>,
                      <<PathArg(FALSE, <<DotDot, FileA>>)>>,
                      <<PathArg(TRUE, <<NameHome, b_t>>)>>}
        items == {[src_base_index |-> b, src_rel |-> PathArg(FALSE, <<FileA>>),
                   new_name |-> n] : b \in DOMAIN Allowed, n \in new_names}
    IN {[op |-> "file_make_dirs", base_index |-> b, names |-> ns, parent_rel |-> parent,
         parents |-> parents, exist_ok |-> exist_ok] :
           b \in DOMAIN Allowed, ns \in UNION {[1..k -> names] : k \in 1..MaxItems},
           parent \in folders, parents \in BOOLEAN, exist_ok \in BOOLEAN}
       \cup
       {[op |-> "move_many", items |-> its, dst_base_index |-> b, dst_folder_rel |-> folder,
         overwrite |-> overwrite, create_dst |-> create_dst, dry_run |-> dry_run,
         on_error |-> on_error] :
           its \in UNION {[1..k -> items] : k \in 1..MaxItems}, b \in DOMAIN Allowed,
           folder \in folders, overwrite \in BOOLEAN, create_dst \in BOOLEAN,
           dry_run \in BOOLEAN, on_error \in {"continue", "stop"}}

\* ----------------------------------------------------------- file_make_dirs
\* parent_abs = fm._safe_resolve(fm.allowed[base_index] / parent, ...);
\* parent_abs.mkdir(parents=True, exist_ok=True); except Exception: return
MakeDirsParent ==
    /\ fs.pc = "prep"
    /\ fs.call.op = "file_make_dirs"
    /\ LET q == SafeResolved(fs.call.base_index, fs.call.parent_rel)
       IN IF q = <<>>
          THEN fs' = [fs EXCEPT !.pc = "returned",
                                !.errors = <<[item |-> 0, error |-> "PermissionError"]>>]
          ELSE LET m == Mkdir(fs.tree, q[1], TRUE, TRUE)
               IN fs' = IF m.err # None
                        THEN [fs EXCEPT !.pc = "returned", !.tree = m.tree,
                                        !.errors = <<[item |-> 0, error |-> m.err]>>]
                        ELSE [fs EXCEPT !.pc = "item", !.tree = m.tree, !.folder = q[1]]
    /\ UNCHANGED <<det, lj, fm, loc, clk, cal, plan, jobs, cancel_flags, queue, wk, dir, now,
                   sub, rd, attempts, fails, outcome, runs, vers, seen, obs, cancelAt>>

\* for name in names: target_abs = parent_abs / target_rel;
\* target_abs.mkdir(parents=parents, exist_ok=exist_ok); the name is among the created
\* ones, or its exception among the errors.
MakeDirsName ==
    /\ fs.pc = "item"
    /\ fs.call.op = "file_make_dirs"
    /\ LET target == Join(fs.folder, fs.call.names[fs.i])
           m == Mkdir(fs.tree, target, fs.call.parents, fs.call.exist_ok)
       IN fs' = [fs EXCEPT !.pc = IF fs.i = Len(fs.call.names) THEN "returned" ELSE "item",
                           !.i = @ + 1,
                           !.tree = m.tree,
                           !.done = IF m.err = None THEN Append(@, target) ELSE @,
                           !.errors = IF m.err = None THEN @
                                      ELSE Append(@, [item |-> fs.i, error |-> m.err])]
    /\ UNCHANGED <<det, lj, fm, loc, clk, cal, plan, jobs, cancel_flags, queue, wk, dir, now,
                   sub, rd, attempts, fails, outcome, runs, vers, seen, obs, cancelAt>>

\* ---------------------------------------------------------------- move_many
\* str(i)
RECURSIVE Decimal(_)
Decimal(i) ==
    LET digits == <<"0", "1", "2", "3", "4", "5", "6", "7", "8", "9">>
    IN IF i < 10 THEN <<digits[i + 1]>> ELSE Decimal(i \div 10) \o <<digits[(i % 10) + 1]>>

\* f"{stem} ({i}){suffix}" with Path(name).stem and Path(name).suffix: the suffix begins
\* at the last dot of the name when that dot is neither its first nor its last character.
Numbered(name, i) ==
    LET dots == {k \in DOMAIN name : name[k] = "."}
        dot == IF dots = {} THEN 0 ELSE CHOOSE k \in dots : \A m \in dots : m <= k
        cut == 1 < dot /\ dot < Len(name)
        stem == IF cut THEN SubSeq(name, 1, dot - 1) ELSE name
        suffix == IF cut THEN SubSeq(name, dot, Len(name)) ELSE <<>>
    IN stem \o <<" ", "(">> \o Decimal(i) \o <<")">> \o suffix

\* The loop of _unique_name: cand, or the first numbered name nothing in the folder has;
\* stem and suffix are those of the last name of the path that name is.
RECURSIVE UniqueFrom(_, _, _, _, _)
UniqueFrom(t, folder, name, cand, i) ==
    IF Exists(t, Join(folder, cand))
    THEN UniqueFrom(t, folder, name,
                    PathArg(FALSE, <<Numbered(IF name.parts = <<>> THEN <<>>
                                              ELSE name.parts[Len(name.parts)], i)>>), i + 1)
    ELSE cand

\* _move with the destination folder move_many has prepared: the tree it leaves, and the
\* dictionary it returns or the exception it raises.
Move(t, it, dst_folder_abs, overwrite, dry_run) ==
    LET Raised(tree, err) ==
            [tree |-> tree, err |-> err, src |-> <<>>, dst |-> <<>>, status |-> None]
        src == SafeResolved(it.src_base_index, it.src_rel)
    IN IF src = <<>> THEN Raised(t, "PermissionError")
       ELSE IF src[1] \notin DOMAIN t.files THEN Raised(t, "FileNotFoundError")
       ELSE IF dst_folder_abs \notin t.dirs THEN Raised(t, "FileNotFoundError")
       ELSE
         LET src_abs == src[1]
             target_name == IF it.new_name = <<>> THEN PathArg(FALSE, <<src_abs[Len(src_abs)]>>)
                            ELSE it.new_name[1]
             first == Join(dst_folder_abs, target_name)
             status == IF ~Exists(t, first) THEN "moved"
                       ELSE IF overwrite THEN "overwritten" ELSE "renamed"
             dst_abs == IF status = "renamed"
                        THEN Join(dst_folder_abs,
                                  UniqueFrom(t, dst_folder_abs, target_name, target_name, 1))
                        ELSE first
             \* if status == "overwritten" and dst_abs.exists(): dst_abs.unlink()
             unlinked ==
                 IF status # "overwritten" THEN [tree |-> t, err |-> None]
                 ELSE IF Reach(t, dst_abs)[1] \in t.dirs
                      THEN [tree |-> t, err |-> "IsADirectoryError"]
                      ELSE [tree |-> [t EXCEPT !.files =
                                        [p \in DOMAIN @ \ {Reach(t, dst_abs)[1]} |-> @[p]]],
                            err |-> None]
             u == unlinked.tree
             \* src_abs.replace(dst_abs): the file is at dst_abs afterwards, in the place
             \* of a file that was there; a dst_abs that is the file itself changes nothing
             replaced ==
                 IF src_abs \notin DOMAIN u.files \/ Reach(u, dst_abs) = <<>>
                 THEN [tree |-> u, err |-> "FileNotFoundError"]
                 ELSE IF Reach(u, dst_abs)[1] \in u.dirs
                      THEN [tree |-> u, err |-> "IsADirectoryError"]
                      ELSE [tree |-> [u EXCEPT !.files =
                                        (Reach(u, dst_abs)[1] :> u.files[src_abs])
                                        @@ [p \in DOMAIN @ \ {src_abs} |-> @[p]]],
                            err |-> None]
         IN IF dry_run
            THEN [tree |-> t, err |-> None, src |-> src_abs, dst |-> dst_abs,
                  status |-> CASE status = "moved" -> "would_moved"
                               [] status = "renamed" -> "would_renamed"
                               [] status = "overwritten" -> "would_overwritten"]
            ELSE IF unlinked.err # None THEN Raised(u, unlinked.err)
            ELSE IF replaced.err # None THEN Raised(replaced.tree, replaced.err)
            ELSE [tree |-> replaced.tree, err |-> None, src |-> src_abs, dst |-> dst_abs,
                  status |-> status]

\* dst_folder_abs = self._safe_resolve(...); if create_dst: dst_folder_abs.mkdir(
\* parents=True, exist_ok=True); FileNotFoundError if it is no directory.
MoveManyFolder ==
    /\ fs.pc = "prep"
    /\ fs.call.op = "move_many"
    /\ LET q == SafeResolved(fs.call.dst_base_index, fs.call.dst_folder_rel)
       IN IF q = <<>>
          THEN fs' = [fs EXCEPT !.pc = "raised",
                                !.errors = <<[item |-> 0, error |-> "PermissionError"]>>]
          ELSE LET m == IF fs.call.create_dst THEN Mkdir(fs.tree, q[1], TRUE, TRUE)
                        ELSE [tree |-> fs.tree, err |-> None]
               IN fs' = IF m.err # None
                        THEN [fs EXCEPT !.pc = "raised", !.tree = m.tree,
                                        !.errors = <<[item |-> 0, error |-> m.err]>>]
                        ELSE IF q[1] \notin m.tree.dirs
                        THEN [fs EXCEPT !.pc = "raised",
                                        !.errors = <<[item |-> 0, error |-> "FileNotFoundError"]>>]
                        ELSE [fs EXCEPT !.pc = "item", !.tree = m.tree, !.folder = q[1]]
    /\ UNCHANGED <<det, lj, fm, loc, clk, cal, plan, jobs, cancel_flags, queue, wk, dir, now,
                   sub, rd, attempts, fails, outcome, runs, vers, seen, obs, cancelAt>>

\* for it in items: r = self._move(...); moved.append(r); except Exception: the error is
\* kept, and the loop ends if on_error is "stop".
MoveManyItem ==
    /\ fs.pc = "item"
    /\ fs.call.op = "move_many"
    /\ LET r == Move(fs.tree, fs.call.items[fs.i], fs.folder, fs.call.overwrite, fs.call.dry_run)
           last == fs.i = Len(fs.call.items) \/ (r.err # None /\ fs.call.on_error = "stop")
       IN fs' = [fs EXCEPT !.pc = IF last THEN "returned" ELSE "item",
                           !.i = @ + 1,
                           !.tree = r.tree,
                           !.done = IF r.err = None
                                    THEN Append(@, [item |-> fs.i, src |-> r.src, dst |-> r.dst,
                                                    status |-> r.status])
                                    ELSE @,
                           !.errors = IF r.err = None THEN @
                                      ELSE Append(@, [item |-> fs.i, error |-> r.err])]
    /\ UNCHANGED <<det, lj, fm, loc, clk, cal, plan, jobs, cancel_flags, queue, wk, dir, now,
                   sub, rd, attempts, fails, outcome, runs, vers, seen, obs, cancelAt>>

\* -------------------------------------------------------------- sync_events
\* The events handed to sync_events.  A title is a sequence of characters.  A date field
\* is one day in the ISO form "YYYY-MM-DD" or the legacy form "YYYY.MM.DD", a range
\* "first ~ last", or a text that is no date; days are counted from some day 0.
EventInputs ==
    {[date |-> d, title |-> t] :
        d \in {[form |-> "iso", first |-> 1, last |-> 1],
               [form |-> "legacy", first |-> 1, last |-> 1],
               [form |-> "range", first |-> 1, last |-> 2],
               [form |-> "text", first |-> 0, last |-> 0]},
        t \in {<<"a">>, <<" ", "a">>, <<"b">>}}

\* events().list(timeMin, timeMax, q, singleEvents=True, maxResults=10): the events that
\* cover the day and match q, ten of them at most; q=summary is a free text search, and
\* an event matches when its summary holds the text.
MaxResults == 10

Listed(calendar, q, day) ==
    LET found == {k \in DOMAIN calendar :
                     /\ calendar[k].start <= day /\ day < calendar[k].end
                     /\ \E n \in 0..(Len(calendar[k].summary) - Len(q)) :
                           SubSeq(calendar[k].summary, n + 1, n + Len(q)) = q}
    IN IF Cardinality(found) <= MaxResults THEN {found}
       ELSE {s \in SUBSET found : Cardinality(s) = MaxResults}

\* One pass of the loop of sync_events.  _parse_date_field gives the start date and the
\* exclusive end date, or raises ValueError.  A request to the calendar service answers,
\* fails with HttpError, or the connection fails; _exists answers False when its list
\* request fails with HttpError, and else whether some listed item has this start date
\* and this summary.
SyncEvent ==
    /\ cal.pc = "loop"
    /\ cal.i <= Len(cal.events)
    /\ LET e == cal.events[cal.i]
           start_date == e.date.first
           end_date == (IF e.date.form = "range" THEN e.date.last ELSE e.date.first) + 1
           summary == Strip(e.title)
           Skip == cal' = [cal EXCEPT !.i = @ + 1, !.skipped = @ + 1]
       IN IF e.date.form = "text" THEN Skip
          ELSE \E l \in {"ok", "HttpError", "OSError"},
                  items \in Listed(cal.calendar, summary, start_date),
                  ins \in {"ok", "HttpError"} :
                 LET exists == IF l = "HttpError" THEN FALSE
                               ELSE \E k \in items : /\ cal.calendar[k].start = start_date
                                                     /\ cal.calendar[k].summary = summary
                 IN IF l = "OSError" \/ exists THEN Skip
                    ELSE IF ins # "ok" THEN Skip
                    ELSE cal' = [cal EXCEPT
                                   !.i = @ + 1, !.created = @ + 1,
                                   !.calendar = Append(@, [summary |-> summary,
                                                           start |-> start_date,
                                                           end |-> end_date])]
    /\ UNCHANGED <<det, lj, fm, fs, loc, clk, plan, jobs, cancel_flags, queue, wk, dir, now,
                   sub, rd, attempts, fails, outcome, runs, vers, seen, obs, cancelAt>>

\* return {"created": created, "skipped": skipped}
SyncReturn ==
    /\ cal.pc = "loop"
    /\ cal.i > Len(cal.events)
    /\ cal' = [cal EXCEPT !.pc = "returned",
                          !.result = [created |-> cal.created, skipped |-> cal.skipped]]
    /\ UNCHANGED <<det, lj, fm, fs, loc, clk, plan, jobs, cancel_flags, queue, wk, dir, now,
                   sub, rd, attempts, fails, outcome, runs, vers, seen, obs, cancelAt>>

\* The tool is called again, with the same events.
SyncAgain ==
    /\ cal.pc = "returned"
    /\ cal.call < MaxSyncs
    /\ cal' = [cal EXCEPT !.pc = "loop", !.call = @ + 1, !.i = 1, !.created = 0,
                          !.skipped = 0]
    /\ UNCHANGED <<det, lj, fm, fs, loc, clk, plan, jobs, cancel_flags, queue, wk, dir, now,
                   sub, rd, attempts, fails, outcome, runs, vers, seen, obs, cancelAt>>

\* ---------------------------------------------------------- specification
StartFlow ==
    \/ \E steps \in Flows \cup PoolFlows \cup StatusFlows, out_subdir \in Subdirs :
          StartFlowStore(steps, out_subdir)
    \/ StartFlowSubmit

Callers == StartFlow \/ \E j \in JobIds : Cancel(j)

\* The steps of _run but the one that only a job with its flag set takes.
Uncancelled ==
    \/ \E j \in JobIds : Begin(j)
    \/ \E j \in JobIds : StampStarted(j)
    \/ \E j \in JobIds : BuildDriver(j)
    \/ \E j \in JobIds : LoopStep(j)
    \/ \E j \in JobIds : Attempt(j)
    \/ \E j \in JobIds : Detect(j)
    \/ \E j \in JobIds : SetSuccess(j)
    \/ \E j \in JobIds : SetOkMsg(j)
    \/ \E j \in JobIds : ExceptState(j)
    \/ \E j \in JobIds : ExceptMsg(j)
    \/ \E j \in JobIds : Finally(j)
    \/ \E j \in JobIds : Quit(j)

Workers == Uncancelled \/ \E j \in JobIds : CancelMsg(j)

Browser == \E j \in JobIds : BrowserDownload(j)

GetStatus ==
    \/ \E j \in JobIds : GetStatusBegin(j)
    \/ \E j \in JobIds : GetStatusMissing(j)
    \/ GetStatusRead
    \/ GetStatusReturn

Next == Callers \/ Workers \/ Browser

NextPool == Callers \/ Workers

NextStatus == Callers \/ Workers \/ Browser \/ GetStatus

\* The step lists of Flows, with cancel calls and downloads; no status calls.
Spec == Init /\ [][Next]_vars

\* The pool and the store: several jobs with the short step lists of PoolFlows on pages
\* that offer no download; no status calls.
SpecPool == InitPool /\ [][NextPool]_vars

\* The callers also poll get_status while the worker runs.
SpecStatus == InitStatus /\ [][NextStatus]_vars

\* The steps of the thread that runs job j: it takes the job from the queue when it is
\* the oldest submission and a thread is free, and goes through _run.
Run(j) ==
    \/ Begin(j) \/ StampStarted(j) \/ BuildDriver(j) \/ LoopStep(j) \/ CancelMsg(j)
    \/ Attempt(j) \/ Detect(j) \/ SetSuccess(j) \/ SetOkMsg(j) \/ ExceptState(j)
    \/ ExceptMsg(j) \/ Finally(j) \/ Quit(j)

\* The pool and the store with threads that go on: the session is constructed or the
\* constructor raises, every handler returns or raises, and a thread that can take a
\* step takes it in the end.  Nothing is assumed of the callers.
SpecLive == InitLive /\ [][NextPool]_vars /\ \A j \in JobIds : WF_vars(Run(j))

NextPaths == SafeResolve \/ FileAccess

\* The path check of the file manager, on every path of up to MaxDepth components.
SpecPaths == InitPaths /\ [][NextPaths]_vars

ListJobs == ListJobsBegin \/ ListJobsNext

NextStore == StartFlow \/ Uncancelled \/ ListJobs

\* The store: jobs are started with and without an out_subdir on pages that offer no
\* download, and list_jobs is called while they are started and run; no cancel calls.
SpecStore == InitStore /\ [][NextStore]_vars

DetBrowser ==
    \/ \E f \in DetFiles, s \in DetSizes : DetBrowserWrite(f, s)
    \/ DetBrowserRename

WaitDownload ==
    \/ WaitForDownloadPoll
    \/ WaitDownloadRaise
    \/ WaitDownloadStat
    \/ WaitDownloadSha

NextDetect == WaitDownload \/ DetBrowser

\* One wait_download step, poll by poll, while the browser writes to the directory.
SpecDetect == InitDetect /\ [][NextDetect]_vars

\* The selector resolver on its own, called with any of the selectors.
SpecLocator ==
    /\ Alone("loc")
    /\ \E sel \in Selectors : loc = [pc |-> "call", sel |-> sel, out |-> <<>>]
    /\ [][ByAndValueCall]_vars

\* The click handler on its own: a click step with any retry count, optional or not.
SpecClick ==
    /\ Alone("clk")
    /\ \E retry \in 0..MaxRetry, optional \in BOOLEAN :
         clk = [pc |-> "wait", step |-> [retry |-> retry, optional |-> optional],
                attempt |-> 1, trace |-> <<>>, err |-> None]
    /\ [][ClickStep \/ ClickRetry]_vars

\* One call of the folder tool or of move_many in the tree, nothing done yet.
SpecFiles ==
    /\ Alone("fs")
    /\ \E c \in FileCalls :
         fs = [pc |-> "prep", call |-> c, tree |-> InitTree, i |-> 1, folder |-> <<>>,
               done |-> <<>>, errors |-> <<>>]
    /\ [][MakeDirsParent \/ MakeDirsName \/ MoveManyFolder \/ MoveManyItem]_vars

\* sync_events called with a list of events, on an empty calendar or on one that holds
\* the event "a" of day 1 already.
SpecCalendar ==
    /\ Alone("cal")
    /\ \E events \in UNION {[1..k -> EventInputs] : k \in 1..MaxEvents},
          calendar \in {<<>>, <<[summary |-> <<"a">>, start |-> 1, end |-> 2]>>} :
         cal = [pc |-> "loop", call |-> 1, events |-> events, i |-> 1, created |-> 0,
                skipped |-> 0, calendar |-> calendar,
                result |-> [created |-> 0, skipped |-> 0]]
    /\ [][SyncEvent \/ SyncReturn \/ SyncAgain]_vars

\* ------------------------------------------------------------------ claims
JobDone(j) == j \in DOMAIN jobs /\ wk[j].pc = "done"

\* Whether a status reporting state b may follow one that reported a (None: no status yet).
MayFollow(a, b) ==
    \/ a = None
    \/ a = "job not found"
    \/ a = b
    \/ a = PENDING
    \/ a = RUNNING /\ b \in Terminal

\* C1: the states get_status reports for a job form a prefix of PENDING, RUNNING, T: a
\* job is stored PENDING and stays PENDING until its _run begins, its state goes only from
\* PENDING to RUNNING and from RUNNING to a terminal state, a status returned before
\* _run began reports PENDING, and the states of successive statuses never go back.
C1_StatusOrder ==
    /\ [](\A j \in DOMAIN jobs : runs[j] = 0 => jobs[j].state = PENDING)
    /\ [](rd.pc = "result" /\ runs[rd.job] = 0 => Returned.state = PENDING)
    /\ [][\A j \in DOMAIN jobs :
            jobs'[j].state # jobs[j].state =>
                \/ jobs[j].state = PENDING /\ jobs'[j].state = RUNNING
                \/ jobs[j].state = RUNNING /\ jobs'[j].state \in Terminal]_vars
    /\ [][\A j \in JobIds : MayFollow(obs[j], obs'[j])]_vars

\* A status that reported RUNNING is followed by one that reports a terminal state.
C1_Witness == rd.pc = "result" /\ obs[rd.job] = RUNNING /\ Returned.state \in Terminal

\* C2: once a job's state is SUCCESS, FAILED or CANCELED no step changes it, and no job
\* is run a second time.
C2_TerminalFrozen ==
    /\ [](\A j \in JobIds : runs[j] <= 1)
    /\ [][\A j \in DOMAIN jobs :
            jobs[j].state \in Terminal =>
                jobs'[j].state = jobs[j].state /\ runs'[j] = runs[j]]_vars

\* Job 1 is terminal, cancel was called on it after that, and the worker has since run a
\* job submitted later to its end.
C2_Witness ==
    /\ JobDone(1) /\ cancelAt[1] \in Terminal /\ jobs[1].state = cancelAt[1]
    /\ JobDone(2)

\* C3: once get_status has returned a status with a terminal state, every later status of
\* that job is the same dict (state, message, result and timestamps).
C3_RepeatedStatus ==
    rd.pc = "result" /\ seen[rd.job] # <<>> => Returned = seen[rd.job][1]

\* C4: the dict get_status returns holds the values the job's fields had at one single
\* instant of the call.
C4_SnapshotAtomic == rd.pc = "result" => StatusFields(Returned) \in vers

\* C5: a job whose flag cancel set while the job was PENDING ends CANCELED, with no
\* handler called and with no result -- stated for the jobs whose session was constructed.
C5_CancelWhilePending ==
    \A j \in DOMAIN jobs :
        JobDone(j) /\ cancelAt[j] = PENDING /\ wk[j].driver # "none" =>
            /\ jobs[j].state = CANCELED
            /\ \A i \in DOMAIN attempts[j] : attempts[j][i] = 0
            /\ jobs[j].result = NoResult

\* C6: a job that ended CANCELED has no result (a result of an earlier step is
\* discarded), and the step at whose boundary the flag was seen and the later ones were
\* not executed.
C6_CancelDiscardsResult ==
    \A j \in DOMAIN jobs :
        JobDone(j) /\ jobs[j].state = CANCELED =>
            /\ jobs[j].result = NoResult
            /\ \A i \in DOMAIN attempts[j] : i >= wk[j].i => attempts[j][i] = 0

\* C7: cancel changes no field of any job; on a job that is terminal it returns ok; it
\* leaves the job's flag set, and on a job whose flag is set already it changes nothing.
C7_CancelFrame ==
    [][\A j \in JobIds :
         Cancel(j) =>
            /\ jobs' = jobs /\ wk' = wk
            /\ (j \in DOMAIN jobs /\ jobs[j].state \in Terminal =>
                    CancelResponse(j) = [ok |-> TRUE, job_id |-> j])
            /\ (j \in DOMAIN cancel_flags =>
                    /\ cancel_flags'[j]
                    /\ (cancel_flags[j] => cancel_flags' = cancel_flags))]_vars

\* cancel has set the flag of a job that was terminal already.
C7_Witness ==
    \E j \in DOMAIN jobs :
        cancelAt[j] \in Terminal /\ cancel_flags[j] /\ jobs[j].state = cancelAt[j]

\* C8: a handler call belongs to the first step that has not ended: every earlier step
\* succeeded or failed as an optional step, no later step was attempted, and the job is
\* RUNNING (no cancellation was seen and no step failed it).
C8_StepOrder ==
    [][\A j \in DOMAIN jobs :
         attempts'[j] # attempts[j] =>
            \E i \in DOMAIN jobs[j].steps :
                /\ attempts'[j] = [attempts[j] EXCEPT ![i] = @ + 1]
                /\ outcome[j][i] = "none"
                /\ \A k \in DOMAIN jobs[j].steps :
                      /\ k < i => \/ outcome[j][k] = "ok"
                                  \/ outcome[j][k] = "skipped" /\ jobs[j].steps[k].optional
                      /\ k > i => attempts[j][k] = 0
                /\ jobs[j].state = RUNNING]_vars

\* The second step is attempted after the first, an optional one, failed.
C8_Witness ==
    \E j \in DOMAIN jobs :
        Len(jobs[j].steps) = 2 /\ outcome[j][1] = "skipped" /\ attempts[j][2] > 0

\* C9: a step's handler is called at most retry + 1 times and not again after it
\* returned; a step that failed used all its calls; a job all of whose steps succeeded
\* (the last call of each returned) ends SUCCESS unless the final file detection raised,
\* and a job with a failed step ends FAILED.
C9_RetryBound ==
    \A j \in DOMAIN jobs :
        /\ \A i \in DOMAIN jobs[j].steps :
              /\ attempts[j][i] <= jobs[j].steps[i].retry + 1
              /\ attempts[j][i] = fails[j][i] + (IF outcome[j][i] = "ok" THEN 1 ELSE 0)
              /\ outcome[j][i] \in {"failed", "skipped"} /\ jobs[j].steps[i].act \in Acts
                    => fails[j][i] = jobs[j].steps[i].retry + 1
        /\ JobDone(j) /\ wk[j].err = None /\ (\A i \in DOMAIN outcome[j] : outcome[j][i] = "ok")
              => jobs[j].state = SUCCESS
        /\ JobDone(j) /\ (\E i \in DOMAIN outcome[j] : outcome[j][i] = "failed")
              => jobs[j].state = FAILED

\* A step with retry = 2 failed twice and then succeeded, and the job ended SUCCESS.
C9_Witness ==
    \E j \in DOMAIN jobs :
        /\ JobDone(j) /\ jobs[j].state = SUCCESS
        /\ \E i \in DOMAIN jobs[j].steps :
              jobs[j].steps[i].retry = 2 /\ fails[j][i] = 2 /\ outcome[j][i] = "ok"

\* C10: the handler is called again only after a TimeoutException, a
\* NoSuchElementException, an ElementClickInterceptedException or an AssertionError.
C10_OnlyTransientRetried ==
    \A j \in DOMAIN jobs :
        wk[j].pc = "attempt" /\ wk[j].attempt > 0 =>
            wk[j].err \in Transient \cup {"AssertionError"}

\* C11: a step with optional = True all of whose retry + 1 handler calls raised, whatever
\* they raised, is passed over (the loop goes on with the next step), and a job all of
\* whose steps succeeded or were passed over ends SUCCESS unless the final file
\* detection raised.
C11_OptionalFailureSwallowed ==
    \A j \in DOMAIN jobs :
        /\ \A i \in DOMAIN jobs[j].steps :
              /\ jobs[j].steps[i].optional
              /\ jobs[j].steps[i].act \in Acts
              /\ fails[j][i] = jobs[j].steps[i].retry + 1
              => outcome[j][i] = "skipped"
        /\ JobDone(j) /\ wk[j].err = None /\ jobs[j].state # CANCELED
              => jobs[j].state = SUCCESS

\* C12: a step with optional = False that failed had all its retry + 1 handler calls
\* raise, no later step is attempted, and the job ends FAILED with the message
\* f"{type(e).__name__}: {e}" of the exception its last call raised.
C12_RequiredFailureFails ==
    \A j \in DOMAIN jobs :
        \A i \in DOMAIN jobs[j].steps :
            /\ ~jobs[j].steps[i].optional
            /\ jobs[j].steps[i].act \in Acts
            /\ outcome[j][i] = "failed"
            => /\ attempts[j][i] = jobs[j].steps[i].retry + 1
               /\ fails[j][i] = jobs[j].steps[i].retry + 1
               /\ \A k \in DOMAIN jobs[j].steps : k > i => attempts[j][k] = 0
               /\ jobs[j].state \in {RUNNING, FAILED}
               /\ wk[j].err \in Raises(jobs[j].steps[i].act)
               /\ JobDone(j) => /\ jobs[j].state = FAILED
                                /\ jobs[j].message = FailMessage(wk[j].err)

\* A job of two steps ended FAILED after the first step, one with retry = 1 and
\* optional = False, was attempted twice; the second step was never attempted.
C12_Witness ==
    \E j \in DOMAIN jobs :
        /\ JobDone(j) /\ jobs[j].state = FAILED /\ Len(jobs[j].steps) = 2
        /\ jobs[j].steps[1].retry = 1 /\ ~jobs[j].steps[1].optional
        /\ outcome[j][1] = "failed" /\ attempts[j][1] = 2 /\ attempts[j][2] = 0
        /\ jobs[j].message = FailMessage("TimeoutException")

\* C13: a step whose act is no member of Act fails the job when the loop reaches it: no
\* handler is called for it, whatever its retry and optional, no later step is
\* attempted, and the job ends FAILED with the message of the ValueError.
C13_UnsupportedActFails ==
    \A j \in DOMAIN jobs :
        \A i \in DOMAIN jobs[j].steps :
            jobs[j].steps[i].act \notin Acts =>
                /\ attempts[j][i] = 0
                /\ outcome[j][i] \in {"none", "failed"}
                /\ outcome[j][i] = "failed" =>
                      /\ \A k \in DOMAIN jobs[j].steps : k > i => attempts[j][k] = 0
                      /\ wk[j].err = "ValueError"
                      /\ jobs[j].state \in {RUNNING, FAILED}
                      /\ JobDone(j) => /\ jobs[j].state = FAILED
                                       /\ jobs[j].message = FailMessage("ValueError")
                /\ wk[j].i > i => outcome[j][i] = "failed"

\* A job whose first step has an unknown act, retry = 1 and optional = True ended FAILED.
C13_Witness ==
    \E j \in DOMAIN jobs :
        /\ JobDone(j) /\ jobs[j].state = FAILED /\ Len(jobs[j].steps) = 2
        /\ jobs[j].steps[1].act \notin Acts
        /\ jobs[j].steps[1].retry = 1 /\ jobs[j].steps[1].optional
        /\ outcome[j][1] = "failed" /\ attempts[j] = <<0, 0>>

\* C14: a wait_download step runs the detector at most once to its timeout: after a
\* call of _wait_download raised "download not detected" the step is over, whatever its
\* retry.
C14_DetectionNotRetried ==
    \A j \in DOMAIN jobs :
        \A i \in DOMAIN jobs[j].steps :
            jobs[j].steps[i].act = "wait_download" =>
                /\ fails[j][i] <= 1
                /\ fails[j][i] = 1 => outcome[j][i] \in {"failed", "skipped"}

\* C17: a job with steps, none a wait_download, all of which succeeded ends SUCCESS
\* (unless the final file detection raised), and to_dict renders its result as None.
C17_NoDownloadNoResult ==
    \A j \in DOMAIN jobs :
        /\ JobDone(j) /\ jobs[j].steps # <<>>
        /\ \A i \in DOMAIN jobs[j].steps :
              jobs[j].steps[i].act # "wait_download" /\ outcome[j][i] = "ok"
        /\ wk[j].err = None
        => /\ jobs[j].state = SUCCESS
           /\ Fields(jobs[j]).result = <<>>

\* C18: the file detection at the end of _run writes the job's result only if the job
\* has none: a result that a wait_download step set is the result of the SUCCESS job.
C18_DetectKeepsResult ==
    [][\A j \in DOMAIN jobs :
         wk[j].pc = "loop" /\ wk'[j].pc = "success" /\ jobs[j].result # NoResult =>
            jobs'[j].result = jobs[j].result]_vars

\* C20: no job has finished_at set while its session is open.
C20_QuitBeforeFinished ==
    \A j \in DOMAIN jobs : jobs[j].finished_at # NoTime => wk[j].driver # "open"

\* C19: the session of a job is closed by one driver.quit() call, made at the end of
\* _run whatever the job's state: the session stays open until then, no job is done
\* with its session open, a done job's frame never changes again, and the call, also
\* when it raises, changes no field of any job.
C19_QuitOnce ==
    /\ [](\A j \in DOMAIN jobs : JobDone(j) => wk[j].driver # "open")
    /\ [][\A j \in JobIds :
            /\ wk[j].driver = "open" /\ wk'[j].driver # "open" =>
                  /\ wk[j].pc = "quit" /\ wk'[j].pc = "done"
                  /\ wk'[j].driver \in {"closed", "quit_failed"}
                  /\ jobs[j].state \in Terminal
                  /\ jobs' = jobs
            /\ wk[j].driver \in {"closed", "quit_failed"} => wk'[j] = wk[j]
            /\ wk[j].pc = "done" => wk'[j] = wk[j]]_vars

\* Two jobs are done, one FAILED and one SUCCESS, both with a session that was
\* constructed, and the quit of one of them raised.
C19_Witness ==
    /\ JobDone(1) /\ JobDone(2)
    /\ {jobs[1].state, jobs[2].state} = {FAILED, SUCCESS}
    /\ {wk[1].driver, wk[2].driver} = {"closed", "quit_failed"}

\* C15: _wait_for_download returns a file only if the poll before the returning one
\* chose the same file with the same size, and the result _wait_download then stores
\* has that file's path, that size and the digest of the bytes the file had then.
C15_SettledOnConsecutivePolls ==
    /\ det.pc \in {"stat", "sha", "done"} /\ det.target # None =>
          det.settled # <<>> /\ det.prev = det.settled
    /\ det.pc = "done" /\ det.result # NoResult =>
          det.result[1] = DownloadResult(det.settled[1].file, det.settled[1].size,
                              Sha256(Bytes(det.settled[1].file, det.settled[1].size)))

\* C16: a _wait_download call during which no poll chose the same file with the same
\* size as the poll before it ends with "download not detected", having returned no
\* file and with the result unset; nothing else is raised, and nothing is raised while
\* the polls go on (a poll that finds no file is no error).
C16_TimeoutLeavesResultUnset ==
    /\ det.err \in {None, "TimeoutException"}
    /\ det.pc # "done" => det.err = None /\ det.result = NoResult
    /\ det.pc = "done" /\ ~(det.settled # <<>> /\ det.prev = det.settled) =>
          /\ det.err = "TimeoutException"
          /\ det.target = None
          /\ det.result = NoResult

\* The job's _build_driver call raised: _run is past it without a session.
BuildFailed(j) ==
    /\ j \in DOMAIN jobs
    /\ wk[j].driver = "none"
    /\ wk[j].pc \in {"except", "fail_msg", "finally", "quit", "done"}

\* C21: after _build_driver raised, no handler is called, the job goes from RUNNING to
\* FAILED with the exception's message and ends so, _build_driver is not called again
\* (it is called once, right after started_at is set, and _run begins once), and quit is
\* not called: the job has no session to its end -- whether or not its flag is set.
C21_BuildFailureFatal ==
    /\ [](\A j \in JobIds :
            BuildFailed(j) =>
                /\ \A i \in DOMAIN attempts[j] : attempts[j][i] = 0
                /\ wk[j].err = "WebDriverException"
                /\ jobs[j].state \in {RUNNING, FAILED}
                /\ jobs[j].result = NoResult
                /\ JobDone(j) => /\ jobs[j].state = FAILED
                                 /\ jobs[j].message = FailMessage("WebDriverException"))
    /\ [](\A j \in JobIds : runs[j] <= 1)
    /\ [][\A j \in JobIds :
            /\ wk'[j].pc = "build" => wk[j].pc \in {"started_at", "build"}
            /\ wk[j].pc = "build" /\ wk'[j] # wk[j] => wk'[j].pc \in {"loop", "except"}
            /\ BuildFailed(j) => wk'[j].driver = "none"]_vars

\* A job with steps whose flag was set while it was PENDING ended FAILED because its
\* session could not be constructed.
C21_Witness ==
    \E j \in DOMAIN jobs :
        /\ JobDone(j) /\ BuildFailed(j) /\ jobs[j].state = FAILED
        /\ jobs[j].steps # <<>> /\ cancelAt[j] = PENDING /\ cancel_flags[j]

\* C22: with a pool of plan.workers threads at most that many jobs are RUNNING at any
\* instant; a job submitted while every thread is busy is stored and queued all the same
\* and stays PENDING until a thread is free; _run begins at most once for a job, on one
\* thread, and has begun exactly once for a job that is done.
C22_PoolBound ==
    /\ [](/\ Cardinality({j \in DOMAIN jobs : jobs[j].state = RUNNING}) <= plan.workers
          /\ \A j \in DOMAIN jobs :
                /\ runs[j] <= 1
                /\ wk[j].pc \in {"none", "queued"} => runs[j] = 0 /\ jobs[j].state = PENDING
                /\ wk[j].pc \notin {"none", "queued"} => runs[j] = 1)
    /\ [][\A j \in JobIds :
            wk[j].pc = "queued" /\ wk'[j].pc # "queued" =>
                Cardinality({k \in DOMAIN jobs : jobs[k].state = RUNNING}) < plan.workers]_vars

\* Every thread is busy with a RUNNING job while another job, submitted after it, waits
\* PENDING in the queue with its id returned.
C22_Witness ==
    /\ Cardinality({j \in DOMAIN jobs : jobs[j].state = RUNNING}) = plan.workers
    /\ \E j \in DOMAIN jobs :
          /\ wk[j].pc = "queued" /\ sub = 0 /\ j \in DOMAIN cancel_flags
          /\ jobs[j].state = PENDING

\* C23: every job stored in _jobs has its Event in _cancel_flags at every instant, so a
\* cancel of a stored job answers ok and never "no cancel flag".
C23_StoredJobHasFlag ==
    \A j \in DOMAIN jobs :
        /\ j \in DOMAIN cancel_flags
        /\ CancelResponse(j) = [ok |-> TRUE, job_id |-> j]

\* C24: get_status and cancel of an id that start_flow has not stored answer "job not
\* found" and change nothing: jobs enter _jobs and Events enter _cancel_flags through
\* start_flow only (one job at a time, an Event only for a stored job), and a call for an
\* unknown id leaves the jobs, the flags, the queue and the workers as they were.
C24_UnknownIdChangesNothing ==
    /\ [](/\ DOMAIN cancel_flags \subseteq DOMAIN jobs
          /\ \A j \in JobIds \ DOMAIN jobs :
                CancelResponse(j) = [error |-> "job not found", job_id |-> j])
    /\ [][/\ jobs' # jobs /\ Len(jobs') # Len(jobs) =>
                sub = 0 /\ sub' = Len(jobs') /\ Len(jobs') = Len(jobs) + 1
          /\ \A j \in JobIds \ DOMAIN jobs :
                Cancel(j) \/ GetStatusMissing(j) =>
                    /\ jobs' = jobs /\ cancel_flags' = cancel_flags
                    /\ queue' = queue /\ wk' = wk /\ sub' = sub /\ dir' = dir]_vars

\* get_status of an id that was never stored has answered "job not found" while a job
\* is stored with its flag, which a cancel has set; no job and no flag exists for that id.
C24_Witness ==
    \E j \in JobIds \ DOMAIN jobs :
        /\ obs[j] = "job not found"
        /\ j > plan.limit
        /\ j \notin DOMAIN cancel_flags
        /\ \E k \in DOMAIN jobs : k \in DOMAIN cancel_flags /\ cancel_flags[k]

\* C25: a list_jobs call that runs while start_flow is called and workers run raises
\* nothing, and the list it returns holds one dict for every job whose start_flow had
\* returned before the call began; no job whose start_flow returned leaves _jobs.
C25_ListJobsCompletes ==
    /\ lj.pc # "error"
    /\ lj.pc = "done" =>
          \A j \in lj.before :
              Cardinality({i \in DOMAIN lj.out : lj.out[i].job_id = j}) = 1
    /\ DOMAIN cancel_flags \subseteq DOMAIN jobs

\* C26: the stored jobs have distinct ids, and the out_dir of no job is the out_dir of
\* another job or a directory below it, whatever out_subdir the callers passed: the
\* recursive glob of _detect_latest_file over a job's out_dir reaches that job's files only.
C26_ExclusiveOutDirs ==
    /\ \A j, k \in DOMAIN jobs :
          j # k => /\ jobs[j].job_id # jobs[k].job_id
                   /\ ~IsPrefix(jobs[j].out_dir, jobs[k].out_dir)
    /\ \A j \in DOMAIN jobs : Globbed(j) = {j}

\* Whether the directory or file q is one of the allowed bases or lies below one.
InsideBase(q) == \E b \in DOMAIN Allowed : IsPrefix(Allowed[b], q)

\* C27: a file manager method goes on to the file system only with a path whose resolved
\* absolute path is an allowed base or lies below one; for every other path -- also one
\* to a sibling of a base whose name begins with the base's name -- it raises
\* PermissionError and has looked at nothing.
C27_OnlyInsideBases ==
    /\ fm.pc \in {"access", "done"} => InsideBase(fm.q)
    /\ fm.pc \in {"raised", "done"} /\ ~InsideBase(Resolved(fm)) =>
          fm.err = "PermissionError" /\ fm.touched = {}
    /\ \A q \in (IF fm.pc = "none" THEN {} ELSE fm.touched) : InsideBase(q)

\* The boundary check of the job's last step is behind: the list is empty, or its last
\* step was handed to a handler or failed at the lookup of one.
PastLastCheck(j) ==
    LET n == Len(jobs[j].steps)
    IN n = 0 \/ attempts[j][n] > 0 \/ outcome[j][n] # "none"

\* C28: the flag is looked at only at the head of the loop, before a step: CANCELED is
\* written there and nowhere else, with the flag set and the step at hand not begun; a
\* step in progress goes on to its own return or exception whatever cancel does (which
\* answers ok and writes only the flag); and a job that is past the check of its last
\* step is not CANCELED, so it ends SUCCESS or FAILED also when its flag was set then.
C28_CancelAtBoundariesOnly ==
    /\ [](\A j \in DOMAIN jobs :
            /\ PastLastCheck(j) => jobs[j].state # CANCELED
            /\ JobDone(j) /\ PastLastCheck(j) => jobs[j].state \in {SUCCESS, FAILED})
    /\ [][\A j \in DOMAIN jobs :
            /\ jobs'[j].state = CANCELED /\ jobs[j].state # CANCELED =>
                  /\ wk[j].pc = "loop" /\ wk[j].i <= Len(jobs[j].steps)
                  /\ j \in DOMAIN cancel_flags /\ cancel_flags[j]
                  /\ attempts[j][wk[j].i] = 0 /\ outcome[j][wk[j].i] = "none"
            /\ wk[j].pc = "attempt" /\ wk'[j] # wk[j] =>
                  /\ attempts'[j][wk[j].i] = attempts[j][wk[j].i] + 1
                  /\ wk'[j].pc \in {"attempt", "loop", "except"}
                  /\ jobs'[j].state = RUNNING
            /\ wk[j].pc = "attempt" /\ cancel_flags'[j] # cancel_flags[j] =>
                  /\ wk' = wk /\ jobs' = jobs /\ attempts' = attempts
                  /\ CancelResponse(j) = [ok |-> TRUE, job_id |-> j]]_vars

\* A job whose flag was first set while it was RUNNING and past the check of its only
\* step -- the handler had been called -- is done with SUCCESS and its flag set.
C28_Witness ==
    \E j \in DOMAIN jobs :
        /\ JobDone(j) /\ jobs[j].state = SUCCESS /\ Len(jobs[j].steps) = 1
        /\ cancel_flags[j] /\ cancelAt[j] = RUNNING
        /\ attempts[j][1] > 0

\* C29: every job whose start_flow returned reaches a terminal state with finished_at
\* set, if the threads of the pool go on -- a job that waits in the queue while every
\* thread is busy, a job without steps, and a job whose steps fail included.
C29_EveryJobFinishes ==
    \A j \in JobIds :
        (j \in DOMAIN cancel_flags) ~>
            (j \in DOMAIN jobs /\ jobs[j].state \in Terminal /\ jobs[j].finished_at # NoTime)

\* Two jobs were run by the pool and are done with finished_at set: one whose only step
\* failed is FAILED, one without steps is SUCCESS.
C29_Witness ==
    \E j, k \in DOMAIN jobs :
        /\ JobDone(j) /\ jobs[j].state = FAILED /\ jobs[j].finished_at # NoTime
        /\ Len(jobs[j].steps) = 1 /\ fails[j][1] > 0 /\ wk[j].driver # "none"
        /\ JobDone(k) /\ jobs[k].state = SUCCESS /\ jobs[k].finished_at # NoTime
        /\ jobs[k].steps = <<>>

\* The files of the watched directory that are complete and have a name the wait asks
\* for: every complete file without a pattern, the .xlsx file with "*.xlsx".
Wanted(pattern) == IF pattern = None THEN {"report.xlsx", "shot.png"} ELSE {"report.xlsx"}

\* C30: a poll of _wait_for_download looks at no file with the .crdownload suffix and at
\* no file the pattern does not match; of the others it looks at the most recently
\* modified one only: it notes no size of another file and returns no other.  So the
\* file returned is never in progress and always matches, and a wait none of whose
\* polls found such a file ends with TimeoutException and no result.
C30_IgnoresInProgressAndOthers ==
    /\ [](/\ det.target # None => det.target \in Wanted(det.pattern)
          /\ \A f \in DetFiles : det.seen[f] # NoSize => f \in Wanted(det.pattern)
          /\ det.result # NoResult => det.result[1].file_path \in Wanted(det.pattern)
          /\ (det.pc = "done" /\ \A f \in DetFiles : det.seen[f] = NoSize) =>
                det.err = "TimeoutException" /\ det.result = NoResult /\ det.target = None)
    /\ [][det.pc = "poll" /\ det'.writes = det.writes /\ det' # det /\ det'.pc # "done" =>
            LET rem == {k \in DOMAIN det.files : det.files[k] \in Wanted(det.pattern)}
            IN IF rem = {}
               THEN det'.seen = det.seen /\ det'.target = None /\ det'.pc = "poll"
               ELSE LET f == det.files[CHOOSE k \in rem : \A m \in rem : m <= k]
                    IN /\ \A g \in DetFiles \ {f} : det'.seen[g] = det.seen[g]
                       /\ det'.pc = "stat" => det'.target = f /\ det.seen[f] = det.size[f]
                       /\ det'.pc = "poll" => det'.seen[f] = det.size[f]]_vars

\* A wait for "*.xlsx" made all its polls on a directory that held a download in
\* progress and a screenshot and has both, and nothing else, at its end: it noted no
\* size and ended with TimeoutException.
C30_Witness ==
    /\ det.pc = "done" /\ det.err = "TimeoutException" /\ det.pattern = "*.xlsx"
    /\ det.polls = MaxPolls
    /\ Len(det.files) = 2
    /\ \A k \in DOMAIN det.files : det.files[k] \in {"report.xlsx.crdownload", "shot.png"}
    /\ \A f \in DetFiles : det.seen[f] = NoSize
    /\ det.result = NoResult

\* C31: once a job has a result, no later step of its life gives it another: neither a
\* further wait_download step nor the detection after the loop replaces a result that a
\* wait_download step wrote, and nothing clears it.
C31_ResultWrittenOnce ==
    [][\A j \in DOMAIN jobs :
         jobs[j].result # NoResult => jobs'[j].result = jobs[j].result]_vars

C33_Timestamps ==
    /\ [](\A j \in DOMAIN jobs :
            /\ jobs[j].created_at # NoTime
            /\ jobs[j].started_at # NoTime =>
                  jobs[j].state # PENDING /\ jobs[j].created_at <= jobs[j].started_at
            /\ jobs[j].finished_at # NoTime =>
                  /\ jobs[j].state \in Terminal
                  /\ jobs[j].started_at # NoTime
                  /\ jobs[j].started_at <= jobs[j].finished_at
            /\ JobDone(j) => jobs[j].finished_at # NoTime)
    /\ [][\A j \in DOMAIN jobs :
            /\ jobs[j].finished_at # NoTime => jobs'[j].finished_at = jobs[j].finished_at
            /\ jobs[j].started_at # NoTime => jobs'[j].started_at = jobs[j].started_at
            /\ jobs'[j].created_at = jobs[j].created_at]_vars

\* A job with steps is done with SUCCESS and has its three timestamps in order.
C33_Witness ==
    \E j \in DOMAIN jobs :
        /\ JobDone(j) /\ jobs[j].state = SUCCESS /\ jobs[j].steps # <<>>
        /\ jobs[j].created_at <= jobs[j].started_at
        /\ jobs[j].started_at <= jobs[j].finished_at
        /\ jobs[j].started_at # NoTime

\* The selector of a resolver call without the whitespace around it: the characters from
\* the first to the last one that is no whitespace.
Trimmed(sel) ==
    LET s == IF sel = <<>> THEN <<>> ELSE sel[1]
        solid == {i \in DOMAIN s : s[i] \notin {" ", "\t"}}
    IN IF solid = {} THEN <<>>
       ELSE SubSeq(s, CHOOSE i \in solid : \A k \in solid : i <= k,
                      CHOOSE i \in solid : \A k \in solid : k <= i)

\* C34: the resolver maps a selector, trimmed of the whitespace around it, to the
\* structural locator exactly when the trimmed string starts with "xpath=", and then the
\* path is the rest after the prefix, or with "/" or "(", and then the path is the trimmed
\* string; in every other case, the empty and the missing selector included, it maps it
\* to the flat locator with the trimmed string as the selector.
C34_LocatorResolver ==
    loc.pc = "done" =>
        LET t == Trimmed(loc.sel)
            n == Len(t)
            prefixed == n >= 6 /\ t[1] = "x" /\ t[2] = "p" /\ t[3] = "a" /\ t[4] = "t"
                               /\ t[5] = "h" /\ t[6] = "="
            rooted == n >= 1 /\ t[1] \in {"/", "("}
            r == loc.out[1]
        IN /\ r.by = "xpath" <=> (prefixed \/ rooted)
           /\ r.by \in {"xpath", "css selector"}
           /\ prefixed => r.value = [i \in 1..(n - 6) |-> t[i + 6]]
           /\ ~prefixed => r.value = t

\* A selector with whitespace around the prefix and a path was resolved to the structural
\* locator with the path alone.
C34_Witness ==
    /\ loc.pc = "done"
    /\ loc.sel = << <<" ", "x", "p", "a", "t", "h", "=", "/", "/", " ">> >>
    /\ loc.out = << [by |-> "xpath", value |-> <<"/", "/">>] >>

\* The operations of a click attempt, in the order the attempt performs them.
ClickOrder == <<"wait_clickable", "click", "wait_overlay", "scroll", "click", "script_click">>

\* The attempt of the click has not ended.
ClickRunning == clk.pc \notin {"returned", "failed", "skipped", "raised"}

\* C35: one attempt of a click waits until the target is clickable and clicks; only if
\* that click was intercepted it waits for the overlay to disappear, goes on whether that
\* wait succeeded or not, scrolls the target into view and clicks again; only if the
\* second click was intercepted it clicks by script.  The attempt succeeds as soon as one
\* click succeeds, and a click that fails otherwise ends the attempt with that failure,
\* with no operation after it.
C35_ClickFallbacks ==
    /\ [](LET t == clk.trace
              n == Len(t)
          IN /\ n <= 6
             /\ \A i \in 1..n : t[i].op = ClickOrder[i]
             /\ n >= 2 => t[1].res = "ok"
             /\ n = 1 /\ t[1].res = "ok" => ClickRunning
             /\ n >= 3 <=> (n >= 2 /\ t[2].res = "ElementClickInterceptedException"
                                   /\ ~(n = 2 /\ ClickRunning))
             /\ n = 2 /\ t[2].res = "ElementClickInterceptedException" => ClickRunning
             /\ n = 3 => ClickRunning
             /\ n = 4 /\ t[4].res = "ok" => ClickRunning
             /\ n >= 5 => t[4].res = "ok"
             /\ n = 6 <=> (n >= 5 /\ t[5].res = "ElementClickInterceptedException"
                                  /\ ~(n = 5 /\ ClickRunning))
             /\ n = 5 /\ t[5].res = "ElementClickInterceptedException" => ClickRunning
             /\ \A i \in {2, 5, 6} \cap 1..n :
                  /\ t[i].res = "ok" => i = n /\ clk.pc = "returned"
                  /\ t[i].res \notin {"ok", "ElementClickInterceptedException"} =>
                         i = n /\ ~ClickRunning /\ clk.pc # "returned" /\ clk.err = t[i].res
             /\ clk.pc = "returned" => n \in {2, 5, 6} /\ t[n].res = "ok")
    /\ [][ClickRunning => Len(clk'.trace) = Len(clk.trace) + 1
                          /\ SubSeq(clk'.trace, 1, Len(clk.trace)) = clk.trace]_vars

\* An attempt whose two clicks were intercepted and whose wait for the overlay timed out
\* went on to the script click and succeeded with it.
C35_Witness ==
    /\ clk.pc = "returned"
    /\ Len(clk.trace) = 6
    /\ clk.trace[3] = [op |-> "wait_overlay", res |-> "TimeoutException"]
    /\ clk.trace[6] = [op |-> "script_click", res |-> "ok"]

\* C36: the folder tool and the moves make and write directories and files only inside
\* the allowed bases: with a folder name or a new_name that holds ".." or is absolute, no
\* directory and no file comes to be, and no file gets another content, outside every
\* allowed base.
C36_WritesInsideBases ==
    fs.pc # "none" =>
        /\ \A q \in fs.tree.dirs \ InitTree.dirs : InsideBase(q)
        /\ \A q \in DOMAIN fs.tree.files :
              (q \notin DOMAIN InitTree.files \/ fs.tree.files[q] # InitTree.files[q]) =>
                  InsideBase(q)

\* The file an item of move_many names, and the path its name leads to in the folder.
ItemSource(it) == Resolve(Allowed[it.src_base_index] \o it.src_rel.parts)
ItemTarget(it, folder) ==
    IF it.new_name = <<>> THEN Append(folder, ItemSource(it)[Len(ItemSource(it))])
    ELSE IF it.new_name[1].absolute THEN it.new_name[1].parts
    ELSE folder \o it.new_name[1].parts

\* The tree after the file at src has gone to dst, in the place of what was there.
Carried(t, src, dst) ==
    [dirs |-> t.dirs,
     files |-> [q \in (DOMAIN t.files \ {src}) \cup {dst} |->
                  IF q = dst THEN t.files[src] ELSE t.files[q]]]

\* C37: a move of a file that is there, with overwrite false, leaves every other file
\* with its content: if something is at the destination, the file gets the first name
\* "stem (i).ext", i = 1, 2, ..., that nothing in the folder has, and the status is
\* "renamed".  With overwrite true the file takes the place of the file at the
\* destination, nothing else changes, and the status is "overwritten".  If nothing is
\* at the destination the file goes there and the status is "moved".
C37_MoveCollisions ==
    [][(fs.pc = "item" /\ fs.call.op = "move_many" /\ ~fs.call.dry_run
          /\ ItemSource(fs.call.items[fs.i]) \in DOMAIN fs.tree.files) =>
        LET it == fs.call.items[fs.i]
            t == fs.tree
            src == ItemSource(it)
            first == ItemTarget(it, fs.folder)
            name == first[Len(first)]
            free == {k \in 1..(Cardinality(DOMAIN t.files) + 1) :
                        ~Exists(t, Append(fs.folder, Numbered(name, k)))}
            renamed == Append(fs.folder, Numbered(name, CHOOSE k \in free : \A m \in free : k <= m))
            Reported(dst, status) ==
                /\ fs'.errors = fs.errors
                /\ fs'.done = Append(fs.done, [item |-> fs.i, src |-> src, dst |-> dst,
                                               status |-> status])
                /\ fs'.tree = Carried(t, src, Resolve(dst))
        IN /\ ~fs.call.overwrite =>
                \A q \in DOMAIN t.files \ {src} :
                    q \in DOMAIN fs'.tree.files /\ fs'.tree.files[q] = t.files[q]
           /\ IF ~Exists(t, first) THEN Reported(first, "moved")
              ELSE IF fs.call.overwrite THEN Reported(first, "overwritten")
              ELSE Reported(renamed, "renamed")]_vars

\* What the items from the i-th on report when move_many really moves them, one after
\* the other in the tree the items before them left: a status, or the exception.
RECURSIVE ReallyMoved(_, _, _, _)
ReallyMoved(t, c, folder, i) ==
    IF i > Len(c.items) THEN <<>>
    ELSE LET r == Move(t, c.items[i], folder, c.overwrite, FALSE)
         IN IF r.err # None
            THEN <<[item |-> i, error |-> r.err]>>
                 \o (IF c.on_error = "stop" THEN <<>> ELSE ReallyMoved(r.tree, c, folder, i + 1))
            ELSE <<[item |-> i, status |-> r.status]>> \o ReallyMoved(r.tree, c, folder, i + 1)

\* The statuses among such reports, item by item.
Statuses(reports) ==
    {[item |-> reports[k].item, status |-> reports[k].status] :
        k \in {n \in DOMAIN reports : "status" \in DOMAIN reports[n]}}

\* C38: move_many with dry_run true changes nothing in the tree -- no file is moved,
\* renamed or deleted and no directory is made -- and reports for every item the status
\* "would_<s>" where s is the status the same call reports with dry_run false.
C38_DryRunChangesNothing ==
    (fs.pc # "none" /\ fs.call.op = "move_many" /\ fs.call.dry_run) =>
        /\ fs.tree = InitTree
        /\ fs.pc = "returned" =>
              LET real == IF fs.call.create_dst
                          THEN Mkdir(InitTree, fs.folder, TRUE, TRUE).tree ELSE InitTree
                  would == [s \in {"moved", "renamed", "overwritten"} |->
                               CASE s = "moved" -> "would_moved"
                                 [] s = "renamed" -> "would_renamed"
                                 [] s = "overwritten" -> "would_overwritten"]
              IN {[item |-> d.item, status |-> d.status] : d \in {fs.done[k] : k \in DOMAIN fs.done}}
                 = {[item |-> s.item, status |-> would[s.status]] :
                        s \in Statuses(ReallyMoved(real, fs.call, fs.folder, 1))}

\* C39: sync_events counts every event it was given once, as created or as skipped, so
\* the two counts add up to the number of events; it inserts no event whose summary and
\* start date some event of the calendar has already; and a second call with the same
\* events creates nothing.
C39_SyncCounts ==
    /\ [](cal.pc # "none" =>
            /\ cal.pc = "loop" => cal.created + cal.skipped = cal.i - 1
            /\ cal.pc = "returned" =>
                   cal.result.created + cal.result.skipped = Len(cal.events)
            /\ cal.call >= 2 => cal.created = 0)
    /\ [][cal.pc # "none" /\ cal'.calendar # cal.calendar =>
            /\ Len(cal'.calendar) = Len(cal.calendar) + 1
            /\ SubSeq(cal'.calendar, 1, Len(cal.calendar)) = cal.calendar
            /\ \A k \in DOMAIN cal.calendar :
                  ~(/\ cal.calendar[k].summary = cal'.calendar[Len(cal'.calendar)].summary
                    /\ cal.calendar[k].start = cal'.calendar[Len(cal'.calendar)].start)]_vars

====
